---- MODULE Spec2Model ----
(***************************************************************************)
(* Model of the BOK-AI credential extraction engine.                       *)
(*                                                                         *)
(*   src/src/utils/credentialExtractor.js   per-kind extractors            *)
(*   src/src/utils/jsonFormatter.js         formatting, grouping, merging, *)
(*                                          remote analysis with fallback  *)
(*                                                                         *)
(* A text is a sequence of lines; each line is one TLA+ string.  The       *)
(* regular expressions of the source are modelled by the tables PatLines   *)
(* and Cap, which say for every line of the vocabulary which pattern       *)
(* matches it and what its capture group holds.  String values that the    *)
(* code concatenates or probes (system labels, keys, URLs) are TLA+        *)
(* strings handled character by character.                                 *)
(*                                                                         *)
(*   src/src/components/TextAnalyzer.js     the TextAnalyzer and the       *)
(*                                          CredentialsList components     *)
(*   src/unnamed/part_000                   the App component              *)
(***************************************************************************)
EXTENDS Integers, Sequences, FiniteSets, TLC

VARIABLES
    text,       \* the input of the running call: [type, toks]
    pc,         \* position of the running extraction call
    top,        \* the function the caller invoked
    cur,        \* the extractor whose body is executing
    loop,       \* index of the anchor loop of cur that is executing
    lastIndex,  \* lastIndex of the RegExp object of the executing loop
    match,      \* result of the last exec: a line index, or NoIndex for null
    anchors,    \* the anchors pushed so far by the loops of cur
    ret,        \* value returned by the last finished extractor
    result,     \* the object extractAllCredentials is building / has returned
    creds,      \* the candidate list handed to mergeCredentials
    mpc,        \* position of the caller of mergeCredentials
    merged,     \* mergeCredentials(creds)
    remerged,   \* mergeCredentials(merged)
    records,    \* the records handed to the grouping / categorizing functions
    fpc,        \* position of the caller of those functions
    grouped,    \* outcome of groupCredentialsByClient(records)
    flat,       \* flattenGroupedCredentials(grouped)
    buckets,    \* outcome of categorizeMigrationData(records)
    arg,        \* the credentials argument of the export call
    exported,   \* outcome of the export call
    downloads,  \* the links the export calls clicked: [href, download]
    formatter,  \* the format function called on records[1]
    outcome,    \* what that call returned or threw
    options,    \* the options of analyzeTextForCredentials
    env,        \* process.env.NODE_ENV
    apc,        \* position of the analyzeTextForCredentials call
    requests,   \* number of fetch calls issued by the call
    remote,     \* how the remote call settled
    answer,     \* what analyzeTextForCredentials returned or threw
    isAnalyzing,         \* TextAnalyzer: the isAnalyzing state
    inFlight,            \* TextAnalyzer: calls of handleAnalyzeClick not yet finished
    error,               \* TextAnalyzer: the error state, NULL or a message
    parsedData,          \* TextAnalyzer: the parsedData state
    delivered,           \* what the running analysis handed to onCredentialsDetected
    activeTab,           \* CredentialsList: the activeTab state
    selectedCredentials, \* CredentialsList: the ids of the ticked credentials
    exportData,          \* CredentialsList: what the last exportToJson wrote
    notification,        \* App: the notification state, <<>> for null
    raisedAt,            \* App: the time at which notification was last set
    timers,              \* App: the times at which the pending timeouts fire
    isLoading,           \* App: the isLoading state
    appTab,              \* App: the activeTab state
    clock                \* the time, in seconds

extractVars == <<pc, top, cur, loop, lastIndex, match, anchors, ret, result>>
mergeVars == <<creds, mpc, merged, remerged>>
formatVars == <<records, fpc, grouped, flat, buckets, arg, exported, downloads,
               formatter, outcome>>
analyzeVars == <<options, env, apc, requests, remote, answer>>
analyzerVars == <<isAnalyzing, inFlight, error, parsedData, delivered>>
listVars == <<activeTab, selectedCredentials, exportData>>
noticeVars == <<notification, raisedAt, timers, isLoading, appTab, clock>>
uiVars == <<analyzerVars, listVars, noticeVars>>

vars == <<text, extractVars, mergeVars, formatVars, analyzeVars, uiVars>>

(***************************************************************************)
(* Bounds of the model.                                                    *)
(***************************************************************************)
MaxTextLen == 3     \* lines per input text
MaxAnchors == 3     \* anchors remembered per extractor call (see LoopBody)

(***************************************************************************)
(* JavaScript values.                                                      *)
(***************************************************************************)
\* undefined and null, kept apart from the strings "undefined" and "null"
UNDEFINED == "<undefined>"
NULL == "<null>"
NoMatch == "<no match>"
NoIndex == 0 - 1

\* A JavaScript array / undefined as a uniform record.
List(items) == [kind |-> "list", items |-> items]
Undefined == [kind |-> "undefined", items |-> <<>>]

Min(a, b) == IF a <= b THEN a ELSE b
Max(a, b) == IF a >= b THEN a ELSE b

\* The member of a singleton.  {e(x) : x \in {v}} names the value v once,
\* as `const x = v` does.
The(S) == CHOOSE x \in S : TRUE

RECURSIVE Concat(_)
Concat(seqs) == IF Len(seqs) = 0 THEN <<>> ELSE Head(seqs) \o Concat(Tail(seqs))


(***************************************************************************)
(* String primitives of JavaScript, on TLA+ strings.                       *)
(***************************************************************************)
\* s.substring(from, to) with 0-based, already clipped arguments.
Substring(s, from, to) == IF to <= from THEN "" ELSE SubSeq(s, from + 1, to)

\* s.includes(sub)
Includes(s, sub) ==
    \E str \in {s} :
        \E i \in 1..(Len(str) - Len(sub) + 1) : SubSeq(str, i, i + Len(sub) - 1) = sub

\* s.indexOf(sub): 0-based index of the first occurrence, or -1
IndexOf(s, sub) ==
    The({IF hits = {} THEN NoIndex
         ELSE (CHOOSE i \in hits : \A j \in hits : i <= j) - 1 :
            hits \in {The({{i \in 1..(Len(str) - Len(sub) + 1) :
                                SubSeq(str, i, i + Len(sub) - 1) = sub} :
                            str \in {s}})}})

LowerChar(ch) ==
    The({
    CASE c = "A" -> "a" [] c = "B" -> "b" [] c = "C" -> "c" [] c = "D" -> "d"
      [] c = "E" -> "e" [] c = "F" -> "f" [] c = "G" -> "g" [] c = "H" -> "h"
      [] c = "I" -> "i" [] c = "J" -> "j" [] c = "K" -> "k" [] c = "L" -> "l"
      [] c = "M" -> "m" [] c = "N" -> "n" [] c = "O" -> "o" [] c = "P" -> "p"
      [] c = "Q" -> "q" [] c = "R" -> "r" [] c = "S" -> "s" [] c = "T" -> "t"
      [] c = "U" -> "u" [] c = "V" -> "v" [] c = "W" -> "w" [] c = "X" -> "x"
      [] c = "Y" -> "y" [] c = "Z" -> "z" [] OTHER -> c :
        c \in {ch}})

\* The characters i..j of s in lower case, by halves.
RECURSIVE LowerFrom(_, _, _)
LowerFrom(s, i, j) ==
    IF i > j THEN ""
    ELSE IF i = j THEN LowerChar(SubSeq(s, i, i))
    ELSE The({LowerFrom(s, i, mid) \o LowerFrom(s, mid + 1, j) :
                mid \in {(i + j) \div 2}})

\* s.toLowerCase()
ToLowerCase(s) == The({LowerFrom(str, 1, Len(str)) : str \in {s}})

\* s.trim().length === 0
IsBlank(s) ==
    \E str \in {s} : \A i \in 1..Len(str) : SubSeq(str, i, i) \in {" ", "\n", "\t"}

DigitValue(c) ==
    CASE c = "0" -> 0 [] c = "1" -> 1 [] c = "2" -> 2 [] c = "3" -> 3
      [] c = "4" -> 4 [] c = "5" -> 5 [] c = "6" -> 6 [] c = "7" -> 7
      [] c = "8" -> 8 [] c = "9" -> 9 [] OTHER -> NoIndex

IsDigits(s) == \A i \in 1..Len(s) : DigitValue(SubSeq(s, i, i)) # NoIndex

\* Value of the first n characters of a string of decimal digits.
RECURSIVE DigitsValue(_, _)
DigitsValue(s, n) ==
    IF n = 0 THEN 0 ELSE 10 * DigitsValue(s, n - 1) + DigitValue(SubSeq(s, n, n))

\* parseInt(s) for a string of decimal digits
ParseInt(s) == DigitsValue(s, Len(s))

\* Index (1-based) of the first character of s at or after `from` that is in
\* chars, or Len(s) + 1.
FindChar(s, chars, from) ==
    LET hits == {i \in from..Len(s) : SubSeq(s, i, i) \in chars}
    IN  IF hits = {} THEN Len(s) + 1 ELSE CHOOSE i \in hits : \A j \in hits : i <= j

StartsWith(s, prefix) == Len(s) >= Len(prefix) /\ SubSeq(s, 1, Len(prefix)) = prefix

\* new URL(u).hostname for the http(s) URLs of the model: the host is what
\* lies between "//" and the first "/", "?" or "#", without its ":port".
\* The constructor throws (NoMatch here) when there is no scheme, the host
\* is empty, or the port is not a number of at most 65535.
UrlHostname(u) ==
  The({
    LET skip == IF StartsWith(lower, "https://") THEN Len("https://")
                ELSE IF StartsWith(lower, "http://") THEN Len("http://")
                ELSE 0
        stop == FindChar(lower, {"/", "?", "#"}, skip + 1)
        authority == SubSeq(lower, skip + 1, stop - 1)
        colon == FindChar(authority, {":"}, 1)
        host == SubSeq(authority, 1, colon - 1)
        port == SubSeq(authority, colon + 1, Len(authority))
    IN  IF skip = 0 \/ host = "" THEN NoMatch
        ELSE IF ~IsDigits(port) \/ ParseInt(port) > 65535 THEN NoMatch
        ELSE host :
            lower \in {ToLowerCase(u)}})

(***************************************************************************)
(* Texts.  The lines of a text are joined by newlines into the string the  *)
(* code sees; offsets into that string are 0-based as in JavaScript.       *)
(***************************************************************************)
L_FTP    == "serwer FTP: ftp.example.com"
L_PANEL  == "panel: https://example.com:2083/"
L_SERVER == "serwer: srv.example.com"
L_WEB    == "strony https://example.pl"
L_EMAIL  == "jan@example.com"
L_IP     == "IP: 10.0.0.1"
L_LOGIN  == "login: alice"
L_PASS   == "haslo: s3cret"
L_DOMAIN == "domain: foo.com"
L_SPACE  == " "
L_MOVE   == "przeniesienie https://example.org"
L_NS     == "serwery DNS: ns1.example.net, ns2.example.net"
L_ULOGIN == "Login jan@example.com"

\* The lines the texts of the extractor calls are made of.  L_ULOGIN occurs
\* in the texts typed into the TextAnalyzer only.
Lines == {L_FTP, L_PANEL, L_SERVER, L_WEB, L_EMAIL, L_IP, L_LOGIN, L_PASS,
          L_DOMAIN, L_SPACE, L_MOVE, L_NS}

RECURSIVE Join(_)
Join(toks) ==
    IF Len(toks) = 0 THEN ""
    ELSE IF Len(toks) = 1 THEN toks[1]
    ELSE toks[1] \o "\n" \o Join(Tail(toks))

\* Offset of line i (1-based) in Join(toks).
RECURSIVE LineStart(_, _)
LineStart(toks, i) ==
    IF i = 1 THEN 0 ELSE LineStart(toks, i - 1) + Len(toks[i - 1]) + 1

\* Inputs of a call: a string, or something that is not a string.
StringInput(toks) == [type |-> "string", toks |-> toks]
Inputs ==
    {StringInput(t) : t \in UNION {[1..n -> Lines] : n \in 0..MaxTextLen}}
    \cup {[type |-> "undefined", toks |-> <<>>], [type |-> "number", toks |-> <<>>]}

(***************************************************************************)
(* Pattern library of credentialExtractor.js.  A pattern is named after    *)
(* its key and position in the `patterns` object of its extractor.         *)
(*   PatGlobal    whether the RegExp literal carries the g flag            *)
(* The patterns of jsonFormatter.js carry the name of their constant       *)
(* (siteRegex is the websiteRegex of its extractWebsites, emailPasswordRegex *)
(* the passwordRegex of its extractEmailAccounts); those of                 *)
(* parseTextManually in TextAnalyzer.js carry the prefix "ta.".            *)
(*   PatLines     the lines of the vocabulary the pattern matches          *)
(*   Cap          the text of the capture group the code reads             *)
(*   MatchOffset  where in the line the match starts                       *)
(* Every match of the vocabulary runs to the end of its line.  A pattern   *)
(* may also match across lines, but never left of the matches listed       *)
(* here, and exec reports the leftmost match.                              *)
(***************************************************************************)
PatGlobal(pat) ==
    pat \in {"ipRegex", "emailAddress0", "website1", "domain0", "domain1",
             "websiteRegex", "ftpServerRegex", "ftpServerRegex2",
             "ipAddressRegex", "siteRegex", "bareUrlRegex", "domainRegex",
             "emailRegex", "loginBlockRegex", "simpleLoginRegex",
             "ta.ftpRegex", "ta.websiteRegex", "ta.domainRegex", "ta.emailRegex"}

PatLines(pat) ==
    CASE pat \in {"ftpServer0", "ftpServer1", "ftpServer2"} -> {L_FTP}
      [] pat = "ipRegex" -> {L_IP}
      [] pat \in {"cpanel0", "cpanel1", "panelUrl0"} -> {L_PANEL}
      [] pat = "serverAddress0" -> {L_SERVER}
      [] pat \in {"emailAddress0", "emailRegex", "ta.emailRegex"} ->
            {L_EMAIL, L_ULOGIN}
      [] pat = "website0" -> {L_WEB}
      [] pat \in {"website1", "websiteRegex"} -> {L_PANEL, L_WEB, L_MOVE}
      [] pat = "domain0" -> {L_DOMAIN}
      [] pat \in {"username0", "ftpUsername0", "usernameRegex"} -> {L_LOGIN}
      [] pat \in {"password0", "ftpPassword0", "passwordRegex"} -> {L_PASS}
      [] pat \in {"ftpServerRegex", "ftpServerRegex2"} -> {L_FTP}
      [] pat = "ipAddressRegex" -> {L_IP}
      [] pat \in {"nearbyLoginRegex", "simpleLoginRegex", "ta.login"} -> {L_LOGIN}
      [] pat = "loginBlockRegex" -> {L_LOGIN, L_ULOGIN}
      [] pat \in {"nearbyPasswordRegex", "emailPasswordRegex", "ta.password"} ->
            {L_PASS}
      [] pat = "ta.ftpRegex" -> {L_FTP}
      [] pat = "ta.websiteRegex" -> {L_WEB}
      [] pat = "ta.domainRegex" -> {L_DOMAIN}
      [] pat = "siteRegex" -> {L_WEB}
      [] pat = "bareUrlRegex" -> {L_PANEL, L_WEB, L_MOVE}
      [] pat = "domainRegex" -> {L_DOMAIN}
      [] pat = "systemRegex" -> {L_PANEL, L_SERVER}
      [] pat \in {"nameserverSection0", "nsRegex", "ta.dnsServersRegex"} -> {L_NS}
      [] OTHER -> {}

Cap(pat, line) ==
    CASE line = L_FTP -> "ftp.example.com"
      [] line = L_IP -> "10.0.0.1"
      [] line = L_PANEL /\ pat = "websiteRegex" -> "example.com"
      [] line = L_PANEL -> "https://example.com:2083/"
      [] line = L_SERVER -> "srv.example.com"
      [] line \in {L_EMAIL, L_ULOGIN} -> "jan@example.com"
      [] line = L_WEB /\ pat = "websiteRegex" -> "example.pl"
      [] line = L_WEB -> "https://example.pl"
      [] line = L_DOMAIN -> "foo.com"
      [] line = L_MOVE /\ pat = "websiteRegex" -> "example.org"
      [] line = L_MOVE -> "https://example.org"
      [] line = L_LOGIN -> "alice"
      [] line = L_PASS -> "s3cret"
      [] OTHER -> NoMatch

MatchOffset(pat, line) ==
    CASE pat \in {"ftpServer1", "ftpServerRegex2"} -> Len("serwer ")
      [] pat = "cpanel1" -> Len("panel: ")
      [] pat \in {"emailAddress0", "emailRegex", "ta.emailRegex"} /\ line = L_ULOGIN ->
            Len("Login ")
      [] pat \in {"website1", "websiteRegex", "bareUrlRegex"} /\ line = L_PANEL ->
            Len("panel: ")
      [] pat \in {"website1", "websiteRegex", "bareUrlRegex"} /\ line = L_WEB ->
            Len("strony ")
      [] pat \in {"website1", "websiteRegex", "bareUrlRegex"} /\ line = L_MOVE ->
            Len("przeniesienie ")
      [] OTHER -> 0

\* Offset in Join(toks) at which pat matches in line i.
MatchIndex(toks, pat, i) == LineStart(toks, i) + MatchOffset(pat, toks[i])
MatchEnd(toks, i) == LineStart(toks, i) + Len(toks[i])

\* RegExp.prototype.exec: a pattern without the g flag searches from 0 and
\* leaves lastIndex alone; a pattern with it searches from lastIndex, moves
\* lastIndex to the end of the match and resets it to 0 on failure.
RegExpExec(toks, pat, li) ==
    LET from == IF PatGlobal(pat) THEN li ELSE 0
        hits == {i \in 1..Len(toks) :
                    /\ toks[i] \in PatLines(pat)
                    /\ MatchIndex(toks, pat, i) >= from}
        first == CHOOSE i \in hits : \A j \in hits : i <= j
    IN  IF hits = {}
        THEN [line |-> 0, index |-> NoIndex,
              lastIndex |-> IF PatGlobal(pat) THEN 0 ELSE li]
        ELSE [line |-> first, index |-> MatchIndex(toks, pat, first),
              lastIndex |-> IF PatGlobal(pat) THEN MatchEnd(toks, first) ELSE li]

\* getNearbyText(text, index, radius): the window around an anchor, clipped
\* at the bounds of the text.
getNearbyText(toks, index, radius) ==
    [lo |-> Max(0, index - radius),
     hi |-> Min(Len(Join(toks)), index + radius)]

WindowText(toks, w) == Substring(Join(toks), w.lo, w.hi)

\* pattern.exec(window)[1] for a pattern without the g flag: the capture of
\* the leftmost match that lies inside the window, or NULL.
ExecIn(toks, pat, w) ==
    The({IF hits = {} THEN NULL
         ELSE Cap(pat, toks[CHOOSE i \in hits : \A j \in hits : i <= j]) :
            hits \in {The({{i \in 1..Len(toks) :
                                /\ toks[i] \in PatLines(pat)
                                /\ MatchIndex(toks, pat, i) >= win.lo
                                /\ MatchEnd(toks, i) <= win.hi} :
                            win \in {w}})}})

\* for (const pattern of pats) { m = pattern.exec(window); if (m) break; }
RECURSIVE FirstCap(_, _, _)
FirstCap(toks, pats, w) ==
    IF Len(pats) = 0 THEN NULL
    ELSE IF ExecIn(toks, Head(pats), w) # NULL THEN ExecIn(toks, Head(pats), w)
    ELSE FirstCap(toks, Tail(pats), w)

(***************************************************************************)
(* Anchor loops of the extractors:                                         *)
(*     while ((match = pattern.exec(text)) !== null) { push; ... }         *)
(* Loops(f) lists, in execution order, the pattern of every such loop.     *)
(***************************************************************************)
Extractors == {"extractFtpCredentials", "extractServerCredentials",
               "extractEmailAccounts", "extractWebsites", "extractDomainInfo",
               "extractDnsRecords"}

Loops(f) ==
    CASE f = "extractFtpCredentials" ->
            <<"ftpServer0", "ftpServer1", "ftpServer2", "ipRegex">>
      [] f = "extractServerCredentials" ->
            <<"cpanel0", "cpanel1", "panelUrl0", "serverAddress0", "serverAddress1">>
      [] f = "extractWebsites" -> <<"website0", "website1">>
      [] f = "extractDomainInfo" -> <<"domain0", "domain1">>
      [] OTHER -> <<>>

\* The loop bodies that end with `pattern.lastIndex = match.index + match[0].length`.
AssignsLastIndex(pat) ==
    pat \in {"ftpServer0", "ftpServer1", "ftpServer2", "cpanel0", "cpanel1",
             "panelUrl0", "serverAddress0", "serverAddress1", "website0"}

\* The array after the body ran for match m: whether the body pushes the
\* match depends on the loop.  The model remembers at most MaxAnchors
\* entries; the loop itself goes on.
Push(toks, pat, m, found) ==
    LET Pushes ==
            CASE pat = "ipRegex" ->
                    LET near == ToLowerCase(
                                    WindowText(toks, getNearbyText(toks, m.index, 50)))
                    IN  \/ Includes(near, "ftp")
                        \/ (Includes(near, "serwer") /\ ~Includes(near, "mail"))
              [] pat \in {"website0", "website1", "domain0", "domain1"} ->
                    \A k \in 1..Len(found) : found[k].cap # Cap(pat, toks[m.line])
              [] OTHER -> TRUE
    IN  IF Pushes /\ Len(found) < MaxAnchors
        THEN Append(found, [pat |-> pat, index |-> m.index,
                            cap |-> Cap(pat, toks[m.line])])
        ELSE found

(***************************************************************************)
(* What each extractor returns once its loops are over.                    *)
(***************************************************************************)
Truthy(v) == v \notin {UNDEFINED, NULL, ""}

\* An FTP candidate for every anchor, whether or not a username resolves.
FtpCandidateAlways(toks, a) ==
    LET near == getNearbyText(toks, a.index, 300)
        username == FirstCap(toks, <<"ftpUsername0", "ftpUsername1">>, near)
        password == FirstCap(toks, <<"ftpPassword0", "ftpPassword1">>, near)
    IN  <<[server |-> a.cap, username |-> username, password |-> password,
           port |-> 21, type |-> "ftp",
           confidence |-> IF Truthy(password) THEN 90 ELSE 70]>>

\* credentialExtractor.js extractFtpCredentials, ftpServers.forEach
FtpCandidate(toks, a) ==
    LET near == getNearbyText(toks, a.index, 300)
        username == FirstCap(toks, <<"ftpUsername0", "ftpUsername1">>, near)
        password == FirstCap(toks, <<"ftpPassword0", "ftpPassword1">>, near)
        port == FirstCap(toks, <<"ftpPort0">>, near)
    IN  IF Truthy(username)
        THEN <<[server |-> a.cap, username |-> username, password |-> password,
                port |-> IF Truthy(port) THEN ParseInt(port) ELSE 21, type |-> "ftp",
                confidence |-> IF Truthy(password) THEN 90 ELSE 70]>>
        ELSE <<>>

\* credentialExtractor.js extractServerCredentials, panelUrls.forEach
PanelCandidate(toks, a) ==
    LET near == getNearbyText(toks, a.index, 400)
        username == FirstCap(toks, <<"username0">>, near)
        password == FirstCap(toks, <<"password0">>, near)
        type == IF a.pat \in {"cpanel0", "cpanel1"} THEN "cpanel"
                ELSE IF \/ Includes(a.cap, "cpanel") \/ Includes(a.cap, "cpsess")
                        \/ Includes(a.cap, "whm") THEN "cpanel"
                ELSE IF Includes(a.cap, "plesk") THEN "plesk"
                ELSE IF Includes(a.cap, "directadmin") THEN "directadmin"
                ELSE "panel"
    IN  <<[url |-> a.cap, username |-> username, password |-> password,
           type |-> type,
           confidence |-> IF Truthy(username) /\ Truthy(password) THEN 90 ELSE 70]>>

\* credentialExtractor.js extractServerCredentials, servers.forEach
ServerCandidate(toks, a) ==
    LET near == getNearbyText(toks, a.index, 400)
        username == FirstCap(toks, <<"username0">>, near)
        password == FirstCap(toks, <<"password0">>, near)
    IN  IF Truthy(username)
        THEN <<[server |-> a.cap, username |-> username, password |-> password,
                type |-> "server",
                confidence |-> IF Truthy(password) THEN 90 ELSE 70]>>
        ELSE <<>>

\* extractDomainFromUrl(url): the hostname of the URL, null when the URL is
\* malformed.
extractDomainFromUrl(url) ==
    IF UrlHostname(url) = NoMatch THEN NULL ELSE UrlHostname(url)

\* credentialExtractor.js detectCmsType
detectCmsType(url, contextText) ==
    LET lowerUrl == ToLowerCase(url)
        lowerContext == ToLowerCase(contextText)
    IN  IF ~Truthy(url) THEN NULL
        ELSE IF \/ Includes(lowerUrl, "/wp-") \/ Includes(lowerUrl, "wp-admin")
                \/ Includes(lowerUrl, "wp-content") THEN "WordPress"
        ELSE IF Includes(lowerUrl, "/administrator") \/ Includes(lowerUrl, "joomla")
             THEN "Joomla"
        ELSE IF Includes(lowerUrl, "/drupal") \/ Includes(lowerUrl, "/sites/all/")
             THEN "Drupal"
        ELSE IF Includes(lowerUrl, "magento") \/ Includes(lowerUrl, "/admin_")
             THEN "Magento"
        ELSE IF Includes(lowerUrl, "prestashop") \/ Includes(lowerUrl, "/adminps/")
             THEN "PrestaShop"
        ELSE IF Includes(lowerContext, "wordpress") \/ Includes(lowerContext, " wp ")
             THEN "WordPress"
        ELSE IF Includes(lowerContext, "joomla") THEN "Joomla"
        ELSE IF Includes(lowerContext, "drupal") THEN "Drupal"
        ELSE IF Includes(lowerContext, "magento") THEN "Magento"
        ELSE IF Includes(lowerContext, "prestashop") THEN "PrestaShop"
        ELSE IF Includes(lowerContext, "woocommerce") THEN "WooCommerce"
        ELSE IF Includes(lowerContext, "shopify") THEN "Shopify"
        ELSE NULL

\* credentialExtractor.js extractWebsites, websites.forEach.  The confidence
\* of a website anchor is 0.9 from the context pattern, else by the keywords
\* within 100 characters.
WebsiteCandidate(toks, a) ==
    LET context == ToLowerCase(WindowText(toks, getNearbyText(toks, a.index, 100)))
        confidence ==
            IF a.pat = "website0" THEN 90
            ELSE IF \/ Includes(context, "stron") \/ Includes(context, "www")
                    \/ Includes(context, "przenies") \/ Includes(context, "migrac")
                 THEN 90
            ELSE 70
        domain == extractDomainFromUrl(a.cap)
        near == getNearbyText(toks, a.index, 400)
        whole == getNearbyText(toks, 0, Len(Join(toks)))
        loginMatch == ExecIn(toks, "loginRegex", whole)
        general == FirstCap(toks, <<"loginUrl0">>, near)
        username == ExecIn(toks, "usernameRegex", near)
        password == ExecIn(toks, "passwordRegex", near)
        base == [url |-> a.cap, type |-> "website", index |-> a.index,
                 confidence |-> confidence,
                 loginUrl |-> UNDEFINED, username |-> UNDEFINED,
                 password |-> UNDEFINED, cmsType |-> UNDEFINED]
    IN  IF ~Truthy(domain) THEN base
        ELSE [base EXCEPT
                !.loginUrl = IF Truthy(loginMatch) THEN loginMatch
                             ELSE IF Truthy(general) THEN general ELSE UNDEFINED,
                !.username = IF Truthy(username) THEN username ELSE UNDEFINED,
                !.password = IF Truthy(password) THEN password ELSE UNDEFINED,
                !.cmsType = detectCmsType(a.cap, Join(toks))]

\* while ((m = regex.exec(text)) !== null): the matches exec reports, the
\* RegExp object starting with lastIndex li.
RECURSIVE ExecAll(_, _, _)
ExecAll(toks, pat, li) ==
    The({IF m.index = NoIndex THEN <<>>
         ELSE <<m>> \o ExecAll(toks, pat, m.lastIndex) :
            m \in {RegExpExec(toks, pat, li)}})

\* The capture and index of every match of a loop.
AnchorsOf(toks, pat) ==
    The({[k \in 1..Len(ms) |->
                [cap |-> Cap(pat, toks[ms[k].line]), index |-> ms[k].index]] :
            ms \in {ExecAll(toks, pat, 0)}})

\* if (!found.some(f => f.cap === a.cap)) found.push(a), for every a of more
RECURSIVE AddUnseen(_, _)
AddUnseen(found, more) ==
    IF Len(more) = 0 THEN found
    ELSE The({AddUnseen(next, rest) :
                next \in {IF \E j \in 1..Len(found) : found[j].cap = Head(more).cap
                          THEN found ELSE Append(found, Head(more))},
                rest \in {Tail(more)}})

\* The nameserver entries a line holds: the matches of
\* /(?:ns\d+|NS\d+)\.([a-zA-Z0-9.-]+\.[a-zA-Z]{2,})/g, each with a dot.
NsEntries(line) ==
    IF line = L_NS THEN <<"ns1.example.net", "ns2.example.net">> ELSE <<>>

\* The nameservers of the block that starts at the first match of the
\* section pattern and is 400 characters long: every entry once, in the
\* order of the text.  No line of the vocabulary is a bare hostname.
NsBlock(toks, pat) ==
    The({IF sec.index = NoIndex THEN <<>>
         ELSE The({[k \in 1..Len(entries) |-> entries[k].cap] :
                entries \in {AddUnseen(<<>>,
                    Concat([i \in 1..Len(toks) |->
                        IF /\ LineStart(toks, i) >= sec.index
                           /\ LineStart(toks, i) + Len(toks[i])
                                <= Min(Len(Join(toks)), sec.index + 400)
                        THEN [k \in 1..Len(NsEntries(toks[i])) |->
                                    [cap |-> NsEntries(toks[i])[k]]]
                        ELSE <<>>]))}}) :
            sec \in {RegExpExec(toks, pat, 0)}})

\* credentialExtractor.js extractDomainInfo, the nameserver block.
Nameservers(toks) == NsBlock(toks, "nameserverSection0")

\* A domain candidate that carries the nameservers only when its anchor
\* lies behind the start of the nameserver block.
DomainCandidateScoped(toks, a) ==
    [domain |-> a.cap,
     nameservers |-> IF a.index >= RegExpExec(toks, "nameserverSection0", 0).index
                     THEN Nameservers(toks) ELSE <<>>,
     type |-> "domain", index |-> a.index,
     confidence |-> IF a.pat = "websiteRegex" THEN 80 ELSE 90]

\* credentialExtractor.js extractDomainInfo, domains.push
DomainCandidate(toks, a) ==
    [domain |-> a.cap, nameservers |-> Nameservers(toks), type |-> "domain",
     index |-> a.index, confidence |-> IF a.pat = "websiteRegex" THEN 80 ELSE 90]

\* The value the extractor returns after its loops.  extractDnsRecords ends
\* without a return statement.
ExtractorReturn(f, toks, found) ==
    LET IsPanelAnchor(a) == a.pat \in {"cpanel0", "cpanel1", "panelUrl0"}
        IsServerAnchor(a) == ~IsPanelAnchor(a)
        panelUrls == SelectSeq(found, IsPanelAnchor)
        servers == SelectSeq(found, IsServerAnchor)
    IN  CASE f = "extractFtpCredentials" ->
                List(Concat([k \in 1..Len(found) |-> FtpCandidate(toks, found[k])]))
          [] f = "extractServerCredentials" ->
                List(Concat([k \in 1..Len(panelUrls) |->
                                PanelCandidate(toks, panelUrls[k])])
                     \o Concat([k \in 1..Len(servers) |->
                                    ServerCandidate(toks, servers[k])]))
          [] f = "extractWebsites" ->
                List([k \in 1..Len(found) |-> WebsiteCandidate(toks, found[k])])
          [] f = "extractDomainInfo" ->
                The({List([k \in 1..Len(domains) |->
                                DomainCandidate(toks, domains[k])]) :
                        domains \in {IF Len(Nameservers(toks)) > 0 /\ Len(found) = 0
                                     THEN The({[k \in 1..Len(sites) |->
                                                [pat |-> "websiteRegex",
                                                 cap |-> sites[k].cap,
                                                 index |-> sites[k].index]] :
                                            sites \in {AddUnseen(<<>>,
                                                AnchorsOf(toks, "websiteRegex"))}})
                                     ELSE found}})
          [] OTHER -> Undefined

(***************************************************************************)
(* Candidates and records of jsonFormatter.js.  A property the object does *)
(* not have reads as undefined; a missing number is NoNumber.  Confidences *)
(* are in percent (0.9 is 90).  A property that holds an object or null    *)
(* (imapSettings, pop3) is a sequence: <<the object>>, or <<>> for null or *)
(* undefined.                                                              *)
(***************************************************************************)
NoNumber == 0 - 1

TruthyNumber(n) == n # NoNumber /\ n # 0

Candidate ==
    [_type |-> UNDEFINED, system |-> UNDEFINED, username |-> UNDEFINED,
     password |-> UNDEFINED, server |-> UNDEFINED, url |-> UNDEFINED,
     domain |-> UNDEFINED, email |-> UNDEFINED, nameservers |-> <<>>,
     port |-> NoNumber, confidence |-> NoNumber, dateExtracted |-> UNDEFINED,
     clientName |-> UNDEFINED, clientId |-> UNDEFINED, ticketId |-> UNDEFINED,
     encryption |-> UNDEFINED, imapSettings |-> <<>>, smtpSettings |-> <<>>,
     popSettings |-> <<>>, imapPort |-> NoNumber, smtpPort |-> NoNumber,
     popPort |-> NoNumber]

\* a || b on strings
Or(a, b) == IF Truthy(a) THEN a ELSE b

\* `${v}` in a template literal
Str(v) == IF v = UNDEFINED THEN "undefined" ELSE IF v = NULL THEN "null" ELSE v

\* options.clientInfo when the caller passes none: every property of it
\* reads as undefined.
NoClientInfo == [name |-> UNDEFINED, id |-> UNDEFINED, ticketId |-> UNDEFINED]

\* The outcome of a call that has not been made.
NotCalled == [status |-> "none"]
Returned(v) == [status |-> "returned", value |-> v]
Threw(e) == [status |-> "threw", error |-> e]

IdleMerge ==
    /\ creds = <<>>
    /\ mpc = "idle"
    /\ merged = <<>>
    /\ remerged = <<>>

IdleFormat ==
    /\ records = <<>>
    /\ fpc = "idle"
    /\ grouped = NotCalled
    /\ flat = <<>>
    /\ buckets = NotCalled
    /\ arg = Undefined
    /\ exported = NotCalled
    /\ downloads = <<>>
    /\ formatter = ""
    /\ outcome = NotCalled

IdleAnalyze ==
    /\ options = [clientInfo |-> NoClientInfo]
    /\ env = "development"
    /\ apc = "idle"
    /\ requests = 0
    /\ remote = NotCalled
    /\ answer = NotCalled

\* The components as they are mounted.
NoParsedData ==
    [ftpAccounts |-> <<>>, websitesToMigrate |-> <<>>,
     domainsToDelegrate |-> <<>>, emailAccounts |-> <<>>]

IdleUi ==
    /\ isAnalyzing = FALSE
    /\ inFlight = 0
    /\ error = NULL
    /\ parsedData = NoParsedData
    /\ delivered = NotCalled
    /\ activeTab = "all"
    /\ selectedCredentials = <<>>
    /\ exportData = NotCalled
    /\ notification = <<>>
    /\ raisedAt = 0
    /\ timers = <<>>
    /\ isLoading = FALSE
    /\ appTab = "analyzer"
    /\ clock = 0

(***************************************************************************)
(* The extraction calls, one step per loop test and per loop body.         *)
(***************************************************************************)
NoExec == [line |-> 0, index |-> NoIndex, lastIndex |-> 0]

ResultFields == {"ftpAccounts", "serverCredentials", "emailAccounts", "websites",
                 "domains", "dnsRecords", "databases", "genericCredentials"}

\* Control enters the body of extractor f.  extractEmailAccounts calls
\* patterns.emailConfig.exec, and patterns.emailConfig is an array: the call
\* throws a TypeError before anything else happens.  extractDnsRecords has
\* no anchor loop.
Enter(f) ==
    /\ cur' = f
    /\ loop' = 1
    /\ lastIndex' = 0
    /\ match' = NoExec
    /\ anchors' = <<>>
    /\ pc' = IF f = "extractEmailAccounts" THEN "threw"
             ELSE IF Len(Loops(f)) = 0 THEN "finish"
             ELSE "exec"

\* A caller invokes one exported extractor on a string.
CallExtractor(f) ==
    /\ pc = "idle"
    /\ text.type = "string"
    /\ top' = f
    /\ Enter(f)
    /\ UNCHANGED <<text, ret, result, mergeVars, formatVars, analyzeVars>>
    /\ UNCHANGED uiVars

\* credentialExtractor.js extractAllCredentials: the guard, then the first
\* property of the object literal.
CallExtractAll ==
    /\ pc = "idle"
    /\ top' = "extractAllCredentials"
    /\ IF text.type # "string" \/ IsBlank(Join(text.toks))
       THEN /\ result' = [field \in ResultFields |-> List(<<>>)]
            /\ pc' = "returned"
            /\ UNCHANGED <<cur, loop, lastIndex, match, anchors>>
       ELSE /\ Enter("extractFtpCredentials")
            /\ UNCHANGED result
    /\ UNCHANGED <<text, ret, mergeVars, formatVars, analyzeVars>>
    /\ UNCHANGED uiVars

\* The loop test: match = pattern.exec(text).  On null the loop is left and
\* the next loop starts with the RegExp object of its own pattern.
LoopExec ==
    /\ pc = "exec"
    /\ LET m == RegExpExec(text.toks, Loops(cur)[loop], lastIndex)
       IN  IF m.index # NoIndex
           THEN /\ match' = m
                /\ lastIndex' = m.lastIndex
                /\ pc' = "body"
                /\ UNCHANGED loop
           ELSE /\ match' = NoExec
                /\ lastIndex' = 0
                /\ IF loop < Len(Loops(cur))
                   THEN loop' = loop + 1 /\ pc' = "exec"
                   ELSE loop' = loop /\ pc' = "finish"
    /\ UNCHANGED <<text, top, cur, anchors, ret, result, mergeVars, formatVars, analyzeVars>>
    /\ UNCHANGED uiVars

\* The loop body: push the anchor; the loops over patterns without the g
\* flag then assign pattern.lastIndex.
LoopBody ==
    /\ pc = "body"
    /\ anchors' = Push(text.toks, Loops(cur)[loop], match, anchors)
    /\ lastIndex' = IF AssignsLastIndex(Loops(cur)[loop])
                    THEN MatchEnd(text.toks, match.line)
                    ELSE lastIndex
    /\ pc' = "exec"
    /\ UNCHANGED <<text, top, cur, loop, match, ret, result, mergeVars, formatVars, analyzeVars>>
    /\ UNCHANGED uiVars

FieldOf(f) ==
    CASE f = "extractFtpCredentials" -> "ftpAccounts"
      [] f = "extractServerCredentials" -> "serverCredentials"
      [] f = "extractEmailAccounts" -> "emailAccounts"
      [] f = "extractWebsites" -> "websites"
      [] f = "extractDomainInfo" -> "domains"
      [] OTHER -> "dnsRecords"

\* The extractor returns.  Inside extractAllCredentials the value becomes a
\* property of the result and the next extractor of the literal is called:
\* extractServerCredentials after extractFtpCredentials, then
\* extractEmailAccounts.
Finish ==
    /\ pc = "finish"
    /\ ret' = ExtractorReturn(cur, text.toks, anchors)
    /\ IF top # "extractAllCredentials"
       THEN /\ pc' = "returned"
            /\ UNCHANGED <<cur, loop, lastIndex, match, anchors, result>>
       ELSE /\ result' = [result EXCEPT ![FieldOf(cur)] = ret']
            /\ IF cur = "extractFtpCredentials"
               THEN Enter("extractServerCredentials")
               ELSE Enter("extractEmailAccounts")
    /\ UNCHANGED <<text, top, mergeVars, formatVars, analyzeVars>>
    /\ UNCHANGED uiVars

\* No extraction call is running.
IdleExtract ==
    /\ pc = "idle"
    /\ top = ""
    /\ cur = ""
    /\ loop = 0
    /\ lastIndex = 0
    /\ match = NoExec
    /\ anchors = <<>>
    /\ ret = Undefined
    /\ result = [field \in ResultFields |-> Undefined]

InitExtract ==
    /\ text \in Inputs
    /\ IdleExtract
    /\ IdleUi
    /\ IdleMerge
    /\ IdleFormat
    /\ IdleAnalyze

NextExtract ==
    \/ \E f \in Extractors : CallExtractor(f)
    \/ CallExtractAll
    \/ LoopExec
    \/ LoopBody
    \/ Finish

SpecExtract == InitExtract /\ [][NextExtract]_vars

\* C1: every per-kind extractor terminates on every input string; the loop
\* that collects the anchors is left after finitely many iterations.  The
\* text is finite and fixed, so the loop is left exactly if every test that
\* enters the body reports a match to the right of the match of the
\* iteration before (match is reset when a loop starts); a test that
\* reports the same match again repeats the state of the loop for ever.
C1_ExtractorsTerminate ==
    [][(pc = "exec" /\ pc' = "body") => match'.index > match.index]_vars

\* C2: extractAllCredentials returns without raising for every input, and
\* each of its eight result fields is a list.
C2_ExtractAllReturnsLists ==
    top = "extractAllCredentials" =>
        /\ pc # "threw"
        /\ pc = "returned" => \A f \in ResultFields : result[f].kind = "list"

\* The website candidates extractWebsites returns for a text: one for the
\* first match of the bare-URL pattern on each URL.  When the context
\* pattern matches, its loop is never left and nothing is returned.
WebsitesOf(toks) ==
    IF \E i \in 1..Len(toks) : toks[i] \in PatLines("website0") THEN {}
    ELSE {WebsiteCandidate(toks, [pat |-> "website1",
                                  index |-> MatchIndex(toks, "website1", i),
                                  cap |-> Cap("website1", toks[i])]) :
            i \in {n \in 1..Len(toks) :
                    /\ toks[n] \in PatLines("website1")
                    /\ \A m \in 1..(n - 1) : toks[m] # toks[n]}}

\* C20: every candidate an extractor emits has a confidence in [0,1], and a
\* candidate with both username and password resolved has a confidence
\* greater than or equal to that of a candidate of the same kind with only
\* the username resolved.  The comparison is made for the website
\* candidates of extractWebsites, against those it returns for any text.
C20_ConfidenceSound ==
    (pc = "returned" /\ ret.kind = "list") =>
        /\ \A k \in 1..Len(ret.items) : ret.items[k].confidence \in 0..100
        /\ top = "extractWebsites" =>
                \A k \in 1..Len(ret.items) :
                    (Truthy(ret.items[k].username) /\ Truthy(ret.items[k].password))
                        => \A input \in Inputs : \A other \in WebsitesOf(input.toks) :
                                (Truthy(other.username) /\ ~Truthy(other.password))
                                    => ret.items[k].confidence >= other.confidence

(***************************************************************************)
(* mergeCredentials (jsonFormatter.js).                                    *)
(***************************************************************************)
MaxCreds == 3       \* candidates per list handed to mergeCredentials

\* The key mergeCredentials computes for a candidate.
uniqueKey(cred) ==
    IF cred._type = "ftp" \/ Truthy(cred.server)
    THEN "ftp-" \o Str(cred.server) \o "-" \o Str(cred.username)
    ELSE IF cred._type = "website" \/ Truthy(cred.url)
    THEN "website-" \o Str(cred.url) \o "-" \o Str(cred.username)
    ELSE IF cred._type = "domain" \/ Truthy(cred.domain)
    THEN "domain-" \o Str(cred.domain)
    ELSE IF cred._type = "email"
            \/ (Truthy(cred.username) /\ Includes(cred.username, "@"))
    THEN "email-" \o Str(Or(cred.email, cred.username))
    ELSE "generic-" \o Str(cred.username) \o "-" \o Str(cred.system)

\* allCredentials.forEach from position i on, with the keys seen so far.
RECURSIVE MergeFrom(_, _, _)
MergeFrom(list, i, uniqueKeys) ==
    IF i > Len(list) THEN <<>>
    ELSE IF uniqueKey(list[i]) \in uniqueKeys
         THEN MergeFrom(list, i + 1, uniqueKeys)
         ELSE <<list[i]>> \o MergeFrom(list, i + 1, uniqueKeys \cup {uniqueKey(list[i])})

\* A merge that forgets a key when it meets it again.
RECURSIVE ForgetfulFrom(_, _, _)
ForgetfulFrom(list, i, uniqueKeys) ==
    IF i > Len(list) THEN <<>>
    ELSE IF uniqueKey(list[i]) \in uniqueKeys
         THEN ForgetfulFrom(list, i + 1, uniqueKeys \ {uniqueKey(list[i])})
         ELSE <<list[i]>> \o ForgetfulFrom(list, i + 1, uniqueKeys \cup {uniqueKey(list[i])})

mergeForgetful(list) == ForgetfulFrom(list, 1, {})

\* A merge that keeps the last candidate of every key instead of the first.
mergeKeepLast(list) ==
    LET keep == {i \in 1..Len(list) :
                    \A j \in (i + 1)..Len(list) : uniqueKey(list[j]) # uniqueKey(list[i])}
        Pick[i \in 1..(Len(list) + 1)] ==
            IF i > Len(list) THEN <<>>
            ELSE (IF i \in keep THEN <<list[i]>> ELSE <<>>) \o Pick[i + 1]
    IN  Pick[1]

\* mergeCredentials(list): one array argument, flattened by concat.
mergeCredentials(list) == MergeFrom(list, 1, {})

Ftp(server, username, password, confidence) ==
    [Candidate EXCEPT !._type = "ftp", !.server = server, !.username = username,
                      !.password = password, !.confidence = confidence,
                      !.system = "FTP (" \o server \o ")"]

Website(url, username, password) ==
    [Candidate EXCEPT !._type = "website", !.url = url, !.username = username,
                      !.password = password, !.confidence = 85]

Domain(domain) ==
    [Candidate EXCEPT !._type = "domain", !.domain = domain, !.username = domain,
                      !.password = "", !.confidence = 95,
                      !.system = "Domain (" \o domain \o ")"]

Email(email, server, password) ==
    [Candidate EXCEPT !._type = "email", !.email = email, !.username = email,
                      !.server = server, !.password = password, !.confidence = 88,
                      !.system = "Email (" \o email \o ")"]

Generic(username, password, system) ==
    [Candidate EXCEPT !.username = username, !.password = password,
                      !.system = system, !.confidence = 70]

\* The candidates the lists of the model are built from.
MergePool ==
    {Ftp("example.com", "jan@example.com", "s3cret", 90),
     Ftp("example.com", "jan@example.com", "other", 70),
     Email("jan@example.com", "example.com", "s3cret"),
     Email("jan@example.com", NULL, "s3cret"),
     Website("https://example.pl", "admin", "s3cret"),
     Website("https://example.pl", "root", "s3cret"),
     Domain("foo.com"),
     Generic("alice", "s3cret", "SSH"),
     Generic("alice", "s3cret", "MySQL")}

AddCandidate(c) ==
    /\ mpc = "idle"
    /\ Len(creds) < MaxCreds
    /\ creds' = Append(creds, c)
    /\ UNCHANGED <<mpc, merged, remerged>>
    /\ UNCHANGED <<text, extractVars, formatVars, analyzeVars>>
    /\ UNCHANGED uiVars

Merge ==
    /\ mpc = "idle"
    /\ merged' = mergeCredentials(creds)
    /\ mpc' = "merged"
    /\ UNCHANGED <<creds, remerged>>
    /\ UNCHANGED <<text, extractVars, formatVars, analyzeVars>>
    /\ UNCHANGED uiVars

MergeAgain ==
    /\ mpc = "merged"
    /\ remerged' = mergeCredentials(merged)
    /\ mpc' = "remerged"
    /\ UNCHANGED <<creds, merged>>
    /\ UNCHANGED <<text, extractVars, formatVars, analyzeVars>>
    /\ UNCHANGED uiVars

InitMerge ==
    /\ text = StringInput(<<>>)
    /\ IdleExtract
    /\ IdleUi
    /\ IdleMerge
    /\ IdleFormat
    /\ IdleAnalyze

NextMerge ==
    \/ \E c \in MergePool : AddCandidate(c)
    \/ Merge
    \/ MergeAgain

SpecMerge == InitMerge /\ [][NextMerge]_vars

\* C5: merging a merged list changes nothing: mergeCredentials(mergeCredentials(L))
\* is mergeCredentials(L), the same candidates in the same order.
C5_MergeIdempotent ==
    mpc = "remerged" => remerged = merged

\* A list with three candidates of one key was merged twice.
C5_Witness ==
    /\ mpc = "remerged"
    /\ Len(creds) = 3
    /\ \A i \in 1..3 : uniqueKey(creds[i]) = uniqueKey(creds[1])
    /\ Len(remerged) = 1

\* The positions of the first candidate of every key.
FirstOfKey(list) ==
    {i \in 1..Len(list) : \A j \in 1..(i - 1) : uniqueKey(list[j]) # uniqueKey(list[i])}

\* The n-th smallest member of a set of positions.
Nth(S, n) == CHOOSE i \in S : Cardinality({j \in S : j <= i}) = n

KindOf(cred) ==
    IF cred._type \in {"ftp", "website", "domain", "email"} THEN cred._type
    ELSE "generic"

\* The key fields of a candidate's own kind.
KeyFields(cred) ==
    CASE KindOf(cred) = "ftp" -> <<cred.server, cred.username>>
      [] KindOf(cred) = "website" -> <<cred.url, cred.username>>
      [] KindOf(cred) = "domain" -> <<cred.domain>>
      [] KindOf(cred) = "email" -> <<Or(cred.email, cred.username)>>
      [] OTHER -> <<cred.username, cred.system>>

SameIdentity(a, b) == KindOf(a) = KindOf(b) /\ KeyFields(a) = KeyFields(b)

\* C7: mergeCredentials collapses two candidates only if they have the same
\* kind and equal key fields of that kind: a candidate that no earlier
\* candidate of the list equals in kind and key fields is retained.
C7_CollapseOnlySameIdentity ==
    mpc \in {"merged", "remerged"} =>
        \A j \in 1..Len(creds) :
            (\A i \in 1..(j - 1) : ~SameIdentity(creds[i], creds[j]))
                => \E k \in 1..Len(merged) : merged[k] = creds[j]

(***************************************************************************)
(* Formatting, grouping and categorizing (jsonFormatter.js).               *)
(***************************************************************************)
MaxRecords == 3     \* records per array handed to the grouping functions

\* new Date().toISOString() and its date part: the clock does not move
\* while one call runs.
Now == "2025-01-01T00:00:00.000Z"

\* s.replace(sub, rep) with a string pattern: the first occurrence only.
Replace(s, sub, rep) ==
    IF IndexOf(s, sub) = NoIndex THEN s
    ELSE SubSeq(s, 1, IndexOf(s, sub)) \o rep
         \o SubSeq(s, IndexOf(s, sub) + Len(sub) + 1, Len(s))

\* credential.system?.toLowerCase().includes(word)
SystemIncludes(credential, word) ==
    /\ credential.system \notin {UNDEFINED, NULL}
    /\ Includes(ToLowerCase(credential.system), word)

formatFTPAccount(credential) ==
    [type |-> "ftp",
     server |-> IF Truthy(credential.server) THEN credential.server
                ELSE IF credential.system \notin {UNDEFINED, NULL}
                THEN Or(Replace(Replace(credential.system, "FTP (", ""), ")", ""), NULL)
                ELSE NULL,
     username |-> Or(credential.username, NULL),
     password |-> Or(credential.password, NULL),
     port |-> IF TruthyNumber(credential.port) THEN credential.port ELSE 21,
     encryption |-> Or(credential.encryption, "FTP"),
     dateExtracted |-> Or(credential.dateExtracted, Now),
     confidence |-> IF TruthyNumber(credential.confidence)
                    THEN credential.confidence ELSE 100]

detectCMS(urlOrSystem) ==
    LET lowerCase == ToLowerCase(urlOrSystem)
    IN  IF \/ Includes(lowerCase, "wordpress") \/ Includes(lowerCase, "/wp-")
           \/ Includes(lowerCase, "/wp-admin") THEN "WordPress"
        ELSE IF Includes(lowerCase, "joomla") THEN "Joomla"
        ELSE IF Includes(lowerCase, "drupal") THEN "Drupal"
        ELSE IF Includes(lowerCase, "magento") THEN "Magento"
        ELSE IF Includes(lowerCase, "prestashop") THEN "PrestaShop"
        ELSE IF Includes(lowerCase, "woocommerce") THEN "WooCommerce"
        ELSE IF Includes(lowerCase, "shopify") THEN "Shopify"
        ELSE NULL

\* formatWebsite evaluates new URL(credential.url) outside any try block:
\* a URL the constructor rejects makes the call throw.
formatWebsite(credential) ==
    IF Truthy(credential.url) /\ UrlHostname(credential.url) = NoMatch
    THEN Threw("TypeError: Invalid URL")
    ELSE Returned(
        [type |-> "website",
         url |-> Or(credential.url, NULL),
         hostname |-> IF Truthy(credential.url) THEN UrlHostname(credential.url)
                      ELSE NULL,
         loginDetails |-> [username |-> Or(credential.username, NULL),
                           password |-> Or(credential.password, NULL),
                           loginUrl |-> NULL],
         cms |-> detectCMS(Or(credential.url, Or(credential.system, ""))),
         dateExtracted |-> Or(credential.dateExtracted, Now),
         confidence |-> IF TruthyNumber(credential.confidence)
                        THEN credential.confidence ELSE 100])

formatDomain(credential) ==
    [type |-> "domain",
     domain |-> Or(credential.domain, Or(credential.username, NULL)),
     registrar |-> NULL,
     nameservers |-> credential.nameservers,
     delegation |-> [required |-> Len(credential.nameservers) > 0,
                     currentNameservers |-> NULL],
     dateExtracted |-> Or(credential.dateExtracted, Now),
     confidence |-> IF TruthyNumber(credential.confidence)
                    THEN credential.confidence ELSE 100]

\* The pop3 entry is built only for a truthy popPort, so its `popPort || 995`
\* is popPort.
formatEmailAccount(credential) ==
    LET server ==
            Or(credential.server,
               Or(IF credential.imapSettings # <<>>
                  THEN credential.imapSettings[1].server ELSE NULL,
                  Or(IF credential.smtpSettings # <<>>
                     THEN credential.smtpSettings[1].server ELSE NULL,
                     NULL)))
        smtpPort == IF credential.smtpSettings # <<>>
                    THEN credential.smtpSettings[1].port ELSE credential.smtpPort
        imapPort == IF credential.imapSettings # <<>>
                    THEN credential.imapSettings[1].port ELSE credential.imapPort
        popPort == IF credential.popSettings # <<>>
                   THEN credential.popSettings[1].port ELSE credential.popPort
    IN  [type |-> "email",
         email |-> Or(credential.email, Or(credential.username, NULL)),
         password |-> Or(credential.password, NULL),
         serverConfiguration |->
            [server |-> server,
             incomingServer |->
                [imap |-> [hostname |-> server,
                           port |-> IF TruthyNumber(imapPort) THEN imapPort ELSE 993,
                           encryption |-> "SSL/TLS",
                           authentication |-> "Normal Password"],
                 pop3 |-> IF TruthyNumber(popPort)
                          THEN <<[hostname |-> server, port |-> popPort,
                                  encryption |-> "SSL/TLS",
                                  authentication |-> "Normal Password"]>>
                          ELSE <<>>],
             outgoingServer |->
                [smtp |-> [hostname |-> server,
                           port |-> IF TruthyNumber(smtpPort) THEN smtpPort ELSE 465,
                           encryption |-> "SSL/TLS",
                           authentication |-> "Normal Password"]]],
         dateExtracted |-> Or(credential.dateExtracted, Now),
         confidence |-> IF TruthyNumber(credential.confidence)
                        THEN credential.confidence ELSE 100]

\* "Nieokreslony" stands for the source's literal, written there with an
\* s-acute.
formatGenericCredential(credential) ==
    [type |-> "generic",
     username |-> Or(credential.username, NULL),
     password |-> Or(credential.password, NULL),
     system |-> Or(credential.system, "Nieokreslony"),
     dateExtracted |-> Or(credential.dateExtracted, Now),
     confidence |-> IF TruthyNumber(credential.confidence)
                    THEN credential.confidence ELSE 100]

\* The if / else-if chain shared by groupCredentialsByClient,
\* categorizeMigrationData and createJsonFile: the branch a record takes.
Classify(cred) ==
    IF cred._type = "ftp" \/ SystemIncludes(cred, "ftp") THEN "ftp"
    ELSE IF cred._type = "website" \/ SystemIncludes(cred, "web") THEN "website"
    ELSE IF cred._type = "domain" \/ SystemIncludes(cred, "domain") THEN "domain"
    ELSE IF \/ cred._type = "email"
            \/ (cred.username \notin {UNDEFINED, NULL} /\ Includes(cred.username, "@"))
            \/ SystemIncludes(cred, "email") THEN "email"
    ELSE "generic"

\* The formatter call of the branch, as an outcome.
FormatCredential(cred) ==
    CASE Classify(cred) = "ftp" -> Returned(formatFTPAccount(cred))
      [] Classify(cred) = "website" -> formatWebsite(cred)
      [] Classify(cred) = "domain" -> Returned(formatDomain(cred))
      [] Classify(cred) = "email" -> Returned(formatEmailAccount(cred))
      [] OTHER -> Returned(formatGenericCredential(cred))

\* groupedData is an object keyed by clientId, each client's tickets an
\* object keyed by ticketId.  Object.keys lists string keys that are not
\* array indices in insertion order, and no id of the model is an array
\* index: an object is modelled as the sequence of its entries.
KeyIndex(entries, key) == CHOOSE k \in 1..Len(entries) : entries[k].key = key
HasKey(entries, key) == \E k \in 1..Len(entries) : entries[k].key = key

\* The body of credentials.forEach in groupCredentialsByClient for one
\* credential whose formatter returned `formatted`.
GroupOne(groupedData, credential, formatted) ==
    LET clientId == Or(credential.clientId, "unknown")
        ticketId == Or(credential.ticketId, "general")
        withClient ==
            IF HasKey(groupedData, clientId) THEN groupedData
            ELSE Append(groupedData,
                    [key |-> clientId,
                     clientName |-> Or(credential.clientName, "Nieznany Klient"),
                     clientInfo |-> [id |-> Or(credential.clientId, NULL),
                                     dateAdded |-> SubSeq(Now, 1, 10)],
                     tickets |-> <<>>])
        c == KeyIndex(withClient, clientId)
        tickets == withClient[c].tickets
        withTicket ==
            IF HasKey(tickets, ticketId) THEN tickets
            ELSE Append(tickets, [key |-> ticketId, credentials |-> <<>>,
                                  metadata |-> [dateCreated |-> Now]])
        t == KeyIndex(withTicket, ticketId)
    IN  [withClient EXCEPT ![c].tickets =
            [withTicket EXCEPT ![t].credentials = Append(@, formatted)]]

RECURSIVE GroupFrom(_, _, _)
GroupFrom(credentials, i, groupedData) ==
    IF i > Len(credentials) THEN Returned(groupedData)
    ELSE IF FormatCredential(credentials[i]).status = "threw"
         THEN FormatCredential(credentials[i])
         ELSE GroupFrom(credentials, i + 1,
                        GroupOne(groupedData, credentials[i],
                                 FormatCredential(credentials[i]).value))

groupCredentialsByClient(credentials) == GroupFrom(credentials, 1, <<>>)

\* { ...cred, clientId, clientName: client.clientName, ticketId }
Stamp(cred, clientId, clientName, ticketId) ==
    [clientId |-> clientId, clientName |-> clientName, ticketId |-> ticketId] @@ cred

RECURSIVE StampAll(_, _, _, _)
StampAll(credentials, clientId, clientName, ticketId) ==
    IF Len(credentials) = 0 THEN <<>>
    ELSE <<Stamp(Head(credentials), clientId, clientName, ticketId)>>
         \o StampAll(Tail(credentials), clientId, clientName, ticketId)

RECURSIVE FlattenTickets(_, _)
FlattenTickets(client, tickets) ==
    IF Len(tickets) = 0 THEN <<>>
    ELSE StampAll(Head(tickets).credentials, client.key, client.clientName,
                  Head(tickets).key)
         \o FlattenTickets(client, Tail(tickets))

RECURSIVE flattenGroupedCredentials(_)
flattenGroupedCredentials(groupedData) ==
    IF Len(groupedData) = 0 THEN <<>>
    ELSE FlattenTickets(Head(groupedData), Head(groupedData).tickets)
         \o flattenGroupedCredentials(Tail(groupedData))

BucketOf(kind) ==
    CASE kind = "ftp" -> "ftpAccounts"
      [] kind = "website" -> "websites"
      [] kind = "domain" -> "domains"
      [] kind = "email" -> "emailAccounts"
      [] OTHER -> "otherCredentials"

Buckets == {"ftpAccounts", "websites", "domains", "emailAccounts", "otherCredentials"}

RECURSIVE CategorizeFrom(_, _, _)
CategorizeFrom(credentials, i, acc) ==
    IF i > Len(credentials) THEN Returned(acc)
    ELSE IF FormatCredential(credentials[i]).status = "threw"
         THEN FormatCredential(credentials[i])
         ELSE CategorizeFrom(credentials, i + 1,
                [acc EXCEPT ![BucketOf(Classify(credentials[i]))] =
                    Append(@, FormatCredential(credentials[i]).value)])

categorizeMigrationData(credentials) ==
    CategorizeFrom(credentials, 1, [b \in Buckets |-> <<>>])

\* A candidate as the application stamps it with the current client.
ForClient(cred, clientId, clientName, ticketId) ==
    [cred EXCEPT !.clientId = clientId, !.clientName = clientName,
                 !.ticketId = ticketId, !.dateExtracted = Now]

\* The records the arrays of the model are built from.
RecordPool ==
    {ForClient(Ftp("ftp.example.com", "alice", "s3cret", 90), "K1", "Acme", "T1"),
     ForClient(Website("https://example.pl", "admin", "s3cret"), "K1", "Acme", UNDEFINED),
     ForClient(Website("www.example.pl", "admin", "s3cret"), "K1", "Acme", "T1"),
     ForClient(Domain("webhosting.pl"), UNDEFINED, "Beta", UNDEFINED),
     ForClient(Email("jan@example.com", NULL, "s3cret"), UNDEFINED, "Gamma", "T2"),
     ForClient(Generic("root", "s3cret", "SSH"), "K2", UNDEFINED, "T2"),
     ForClient(Generic("alice", "s3cret", "FTP"), "K1", "Acme Hosting", "T1")}

AddRecord(c) ==
    /\ fpc = "idle"
    /\ Len(records) < MaxRecords
    /\ records' = Append(records, c)
    /\ UNCHANGED <<fpc, grouped, flat, buckets, arg, exported, downloads,
                   formatter, outcome>>
    /\ UNCHANGED <<text, extractVars, mergeVars, analyzeVars>>
    /\ UNCHANGED uiVars

Group ==
    /\ fpc = "idle"
    /\ grouped' = groupCredentialsByClient(records)
    /\ fpc' = "grouped"
    /\ UNCHANGED <<records, flat, buckets, arg, exported, downloads,
                   formatter, outcome>>
    /\ UNCHANGED <<text, extractVars, mergeVars, analyzeVars>>
    /\ UNCHANGED uiVars

Flatten ==
    /\ fpc = "grouped"
    /\ grouped.status = "returned"
    /\ flat' = flattenGroupedCredentials(grouped.value)
    /\ fpc' = "flattened"
    /\ UNCHANGED <<records, grouped, buckets, arg, exported, downloads,
                   formatter, outcome>>
    /\ UNCHANGED <<text, extractVars, mergeVars, analyzeVars>>
    /\ UNCHANGED uiVars

Categorize ==
    /\ fpc = "idle"
    /\ buckets' = categorizeMigrationData(records)
    /\ fpc' = "categorized"
    /\ UNCHANGED <<records, grouped, flat, arg, exported, downloads,
                   formatter, outcome>>
    /\ UNCHANGED <<text, extractVars, mergeVars, analyzeVars>>
    /\ UNCHANGED uiVars

InitFormat ==
    /\ text = StringInput(<<>>)
    /\ IdleExtract
    /\ IdleUi
    /\ IdleMerge
    /\ IdleFormat
    /\ IdleAnalyze

NextFormat ==
    \/ \E c \in RecordPool : AddRecord(c)
    \/ Group
    \/ Flatten
    \/ Categorize

SpecFormat == InitFormat /\ [][NextFormat]_vars

\* How often x occurs in a sequence.
Count(seq, x) == Cardinality({k \in 1..Len(seq) : seq[k] = x})

SameBag(a, b) ==
    /\ Len(a) = Len(b)
    /\ \A k \in 1..Len(a) : Count(a, a[k]) = Count(b, a[k])

\* The flattened record an input record is to come back as: its formatted
\* content with its own client and ticket.
RoundTrip(credential) ==
    Stamp(FormatCredential(credential).value,
          Or(credential.clientId, "unknown"),
          Or(credential.clientName, "Nieznany Klient"),
          Or(credential.ticketId, "general"))

\* C8: for every non-empty array of records,
\* flattenGroupedCredentials(groupCredentialsByClient(records)) holds exactly
\* one formatted record per input record (the same multiset), each with the
\* clientId, clientName and ticketId of the record it was derived from, a
\* missing clientId read as "unknown" and a missing ticketId as "general".
C8_GroupFlattenRoundTrip ==
    /\ (fpc = "grouped" /\ Len(records) > 0) => grouped.status = "returned"
    /\ fpc = "flattened" =>
            SameBag(flat, [k \in 1..Len(records) |-> RoundTrip(records[k])])

Tags == {"ftp", "website", "domain", "email"}

\* The formatted record of a candidate formatted as its own kind.
FormatAs(kind, cred) ==
    CASE kind = "ftp" -> formatFTPAccount(cred)
      [] kind = "website" -> formatWebsite(cred).value
      [] kind = "domain" -> formatDomain(cred)
      [] kind = "email" -> formatEmailAccount(cred)
      [] OTHER -> formatGenericCredential(cred)

\* C9: classification gives priority to the explicit kind tag: a candidate
\* whose _type is ftp, website, domain or email is formatted as that kind
\* and put into the bucket of that kind, whatever its system label or
\* username contains.
C9_TagHasPriority ==
    /\ (fpc = "categorized" /\ buckets.status = "returned") =>
            \A i \in 1..Len(records) :
                records[i]._type \in Tags =>
                    \E k \in 1..Len(buckets.value[BucketOf(records[i]._type)]) :
                        buckets.value[BucketOf(records[i]._type)][k]
                            = FormatAs(records[i]._type, records[i])
    /\ fpc = "flattened" =>
            \A i \in 1..Len(records) :
                records[i]._type \in Tags =>
                    \E k \in 1..Len(flat) :
                        flat[k] = Stamp(FormatAs(records[i]._type, records[i]),
                                        flat[k].clientId, flat[k].clientName,
                                        flat[k].ticketId)

TagOfBucket(b) ==
    CASE b = "ftpAccounts" -> "ftp"
      [] b = "websites" -> "website"
      [] b = "domains" -> "domain"
      [] b = "emailAccounts" -> "email"
      [] OTHER -> "generic"

\* C10: categorizeMigrationData puts every input record into exactly one of
\* its five buckets: the call returns, the bucket sizes sum to the number of
\* input records, and every record of a bucket carries the type tag of that
\* bucket.
C10_EveryRecordInOneBucket ==
    fpc = "categorized" =>
        /\ buckets.status = "returned"
        /\ Len(buckets.value.ftpAccounts) + Len(buckets.value.websites)
            + Len(buckets.value.domains) + Len(buckets.value.emailAccounts)
            + Len(buckets.value.otherCredentials) = Len(records)
        /\ \A b \in Buckets : \A k \in 1..Len(buckets.value[b]) :
                buckets.value[b][k].type = TagOfBucket(b)

(***************************************************************************)
(* The five format functions of jsonFormatter.js, each called on one       *)
(* candidate.  The candidates are the kinds of the aggregator with the     *)
(* optional properties present or absent.                                  *)
(***************************************************************************)
Format(fn) ==
    /\ fpc = "idle"
    /\ formatter' = fn
    /\ outcome' =
            CASE fn = "formatFTPAccount" -> Returned(formatFTPAccount(records[1]))
              [] fn = "formatWebsite" -> formatWebsite(records[1])
              [] fn = "formatDomain" -> Returned(formatDomain(records[1]))
              [] fn = "formatEmailAccount" -> Returned(formatEmailAccount(records[1]))
              [] fn = "formatGenericCredential" ->
                    Returned(formatGenericCredential(records[1]))
    /\ fpc' = "formatted"
    /\ UNCHANGED <<records, grouped, flat, buckets, arg, exported, downloads>>
    /\ UNCHANGED <<text, extractVars, mergeVars, analyzeVars>>
    /\ UNCHANGED uiVars

InitFormatter ==
    /\ text = StringInput(<<>>)
    /\ IdleExtract
    /\ IdleUi
    /\ IdleMerge
    /\ IdleAnalyze
    /\ fpc = "idle"
    /\ grouped = NotCalled
    /\ flat = <<>>
    /\ buckets = NotCalled
    /\ arg = Undefined
    /\ exported = NotCalled
    /\ downloads = <<>>
    /\ formatter = ""
    /\ outcome = NotCalled
    /\ \E base \in {Ftp("ftp.example.com", "alice", "s3cret", 90),
                     Website("https://example.pl/wp-admin", "admin", "s3cret"),
                     Website("www.example.pl", "admin", "s3cret"),
                     Domain("foo.com"),
                     Email("jan@example.com", NULL, "s3cret"),
                     Generic("root", "s3cret", "SSH")},
           confidence \in {NoNumber, 0, 50, 100},
           port \in {NoNumber, 2121},
           encryption \in {UNDEFINED, "SFTP"},
           imapSettings \in {<<>>, <<[server |-> "mail.example.com",
                                      port |-> NoNumber]>>},
           imapPort \in {NoNumber, 143},
           smtpPort \in {NoNumber, 587},
           popPort \in {NoNumber, 110},
           dateExtracted \in {UNDEFINED, "2024-06-30T12:00:00.000Z"} :
            records = <<[base EXCEPT !.confidence = confidence, !.port = port,
                                     !.encryption = encryption,
                                     !.imapSettings = imapSettings,
                                     !.imapPort = imapPort, !.smtpPort = smtpPort,
                                     !.popPort = popPort,
                                     !.dateExtracted = dateExtracted]>>

NextFormatter ==
    \E fn \in {"formatFTPAccount", "formatWebsite", "formatDomain",
                "formatEmailAccount", "formatGenericCredential"} : Format(fn)

SpecFormatter == InitFormatter /\ [][NextFormatter]_vars

\* C12: a website candidate whose URL cannot be parsed does not make
\* formatWebsite raise and is not lost: the call returns the website record
\* with the candidate's url, and the derived hostname is null.
C12_UnparseableUrlKeepsWebsite ==
    (fpc = "formatted" /\ formatter = "formatWebsite") =>
        /\ outcome.status = "returned"
        /\ outcome.value.type = "website"
        /\ outcome.value.url = Or(records[1].url, NULL)
        /\ (Truthy(records[1].url) /\ UrlHostname(records[1].url) = NoMatch)
                => outcome.value.hostname = NULL

\* The port a mail protocol is configured with, NoNumber when the candidate
\* carries none.
PortGiven(settings, port) == IF settings # <<>> THEN settings[1].port ELSE port

\* C17: formatting applies the protocol defaults whenever the candidate
\* lacks the field: formatFTPAccount yields port 21 and encryption "FTP";
\* formatEmailAccount yields IMAP port 993, SMTP port 465 and POP3 port 995,
\* each with encryption "SSL/TLS".
C17_ProtocolDefaults ==
    /\ (fpc = "formatted" /\ formatter = "formatFTPAccount") =>
            /\ records[1].port = NoNumber => outcome.value.port = 21
            /\ records[1].encryption = UNDEFINED => outcome.value.encryption = "FTP"
    /\ (fpc = "formatted" /\ formatter = "formatEmailAccount") =>
            LET incoming == outcome.value.serverConfiguration.incomingServer
                outgoing == outcome.value.serverConfiguration.outgoingServer
            IN  /\ PortGiven(records[1].imapSettings, records[1].imapPort) = NoNumber
                        => /\ incoming.imap.port = 993
                           /\ incoming.imap.encryption = "SSL/TLS"
                /\ PortGiven(records[1].smtpSettings, records[1].smtpPort) = NoNumber
                        => /\ outgoing.smtp.port = 465
                           /\ outgoing.smtp.encryption = "SSL/TLS"
                /\ PortGiven(records[1].popSettings, records[1].popPort) = NoNumber
                        => /\ incoming.pop3 # <<>>
                           /\ incoming.pop3[1].port = 995
                           /\ incoming.pop3[1].encryption = "SSL/TLS"

\* C18: for all five format functions, the confidence of the formatted
\* record is the confidence of its candidate whenever the candidate carries
\* one (0 included); it is 1.0 only when the candidate has no confidence.
C18_ConfidenceCarriedOver ==
    (fpc = "formatted" /\ outcome.status = "returned") =>
        outcome.value.confidence =
            IF records[1].confidence = NoNumber THEN 100 ELSE records[1].confidence

(***************************************************************************)
(* The local heuristic pipeline of jsonFormatter.js: simulateAIAnalysis    *)
(* and its extractors.  Their loops run RegExp objects with the g flag.    *)
(***************************************************************************)
\* text.substring(Math.max(0, lo), Math.min(text.length, hi)) as a window
Window(toks, lo, hi) == [lo |-> Max(0, lo), hi |-> Min(Len(Join(toks)), hi)]

LowerWindow(toks, lo, hi) == ToLowerCase(WindowText(toks, Window(toks, lo, hi)))

extractFtpAccounts(toks) ==
    LET NearServer(a) ==
            \E nearbyText \in {LowerWindow(toks, a.index - 50, a.index + 50)} :
                \/ Includes(nearbyText, "ftp")
                \/ Includes(nearbyText, "serwer")
                \/ Includes(nearbyText, "server")
        Account(a) ==
            The({IF loginMatch # NULL
                 THEN <<[server |-> a.cap, username |-> loginMatch,
                         password |-> IF passwordMatch # NULL THEN passwordMatch ELSE ""]>>
                 ELSE <<>> :
                    loginMatch \in {ExecIn(toks, "nearbyLoginRegex",
                                           Window(toks, a.index - 300, a.index + 300))},
                    passwordMatch \in {ExecIn(toks, "nearbyPasswordRegex",
                                              Window(toks, a.index - 300, a.index + 300))}})
    IN  The({Concat([k \in 1..Len(ftpServers) |-> Account(ftpServers[k])]) :
                ftpServers \in {AnchorsOf(toks, "ftpServerRegex")
                                \o AnchorsOf(toks, "ftpServerRegex2")
                                \o SelectSeq(AnchorsOf(toks, "ipAddressRegex"),
                                             NearServer)}})

extractWebsites(toks) ==
    The({[k \in 1..Len(websites) |->
                [url |-> websites[k].cap, index |-> websites[k].index]] :
            websites \in {AddUnseen(AnchorsOf(toks, "siteRegex"),
                                    AnchorsOf(toks, "bareUrlRegex"))}})

\* jsonFormatter.js extractDomains, the nameserver block.
nameservers(toks) == NsBlock(toks, "nsRegex")

extractDomains(toks) ==
    The({[k \in 1..Len(domains) |->
                [domain |-> domains[k].cap, nameservers |-> nameservers(toks),
                 index |-> domains[k].index]] :
            domains \in {IF /\ Len(nameservers(toks)) > 0
                            /\ Len(AnchorsOf(toks, "domainRegex")) = 0
                         THEN AddUnseen(<<>>, AnchorsOf(toks, "websiteRegex"))
                         ELSE AnchorsOf(toks, "domainRegex")}})

\* No line of the vocabulary opens an email configuration block.
mailServers(toks) == [server |-> NULL]

extractEmailAccounts(toks) ==
    LET PartOfLogin(a) ==
            \E preText \in {LowerWindow(toks, a.index - 20, a.index)} :
                \/ Includes(preText, "login") \/ Includes(preText, "user")
                \/ Includes(preText, "name")
        Account(a) ==
            The({[email |-> a.cap,
                  password |-> IF passwordMatch # NULL THEN passwordMatch ELSE "",
                  server |-> mailServers(toks).server] :
                    passwordMatch \in {ExecIn(toks, "emailPasswordRegex",
                                              Window(toks, a.index - 200, a.index + 200))}})
        isMigrationEmail(a) ==
            \E nearbyText \in {LowerWindow(toks, a.index - 200, a.index + 200)} :
                \/ Includes(nearbyText, "migracj") \/ Includes(nearbyText, "przeniesieni")
                \/ Includes(nearbyText, "skrzynki") \/ Includes(nearbyText, "pocztow")
        Explicit(a) ==
            IF ~PartOfLogin(a) /\ isMigrationEmail(a) THEN <<Account(a)>> ELSE <<>>
        Fallback(a) == IF ~PartOfLogin(a) THEN <<Account(a)>> ELSE <<>>
    IN  The({IF Len(emailAccounts) = 0 /\ Truthy(mailServers(toks).server)
             THEN Concat([k \in 1..Len(emails) |-> Fallback(emails[k])])
             ELSE emailAccounts :
                emails \in {AnchorsOf(toks, "emailRegex")},
                emailAccounts \in {The({
                    Concat([k \in 1..Len(ms) |-> Explicit(ms[k])]) :
                        ms \in {AnchorsOf(toks, "emailRegex")}})}})

\* Whether a line of the given kind lies within radius characters of index.
Resolves(toks, line, index, radius) ==
    \E i \in 1..Len(toks) :
        /\ toks[i] = line
        /\ LineStart(toks, i) >= Max(0, index - radius)
        /\ LineStart(toks, i) + Len(toks[i]) <= Min(Len(Join(toks)), index + radius)

\* The anchors the loops of patterns pats may collect in a text.
AnchorsIn(toks, pats) ==
    UNION {{[pat |-> pat, index |-> MatchIndex(toks, pat, i),
             cap |-> Cap(pat, toks[i])] :
                i \in {n \in 1..Len(toks) : toks[n] \in PatLines(pat)}} :
            pat \in pats}

LinesOf(toks) == {toks[i] : i \in 1..Len(toks)}

\* C25: when a nameserver block is found, every domain candidate returned
\* for the text carries the complete nameserver list of the block, wherever
\* the domain stands; when no domain is named, one domain candidate is
\* made for each distinct hostname of the website URLs of the text, each
\* with that list.  Checked for extractDomainInfo and extractDomains.
C25_NameserversOnEveryDomain ==
    (pc = "returned" /\ top = "extractDomainInfo" /\ L_NS \in LinesOf(text.toks)) =>
        LET hosts == {UrlHostname(Cap("website1", l)) :
                        l \in LinesOf(text.toks) \cap PatLines("website1")}
            named == {Cap("domain0", l) :
                        l \in LinesOf(text.toks) \cap PatLines("domain0")}
            Holds(domains) ==
                /\ \A k \in 1..Len(domains) :
                        domains[k].nameservers = NsEntries(L_NS)
                /\ {domains[k].domain : k \in 1..Len(domains)} =
                        IF named = {} THEN hosts ELSE named
                /\ named = {} => Len(domains) = Cardinality(hosts)
        IN  Holds(ret.items) /\ Holds(extractDomains(text.toks))

\* extractDomainInfo returned two domains made from the website URLs of a
\* text with a nameserver block.
C25_Witness ==
    /\ pc = "returned"
    /\ top = "extractDomainInfo"
    /\ L_NS \in LinesOf(text.toks)
    /\ L_DOMAIN \notin LinesOf(text.toks)
    /\ Len(ret.items) = 2

\* The emails of a text that stand in no login (no login or user keyword in
\* the 20 characters before them) and have a migration keyword within
\* radius characters.
MigrationEmails(toks, radius) ==
    {Cap("emailRegex", toks[i]) :
        i \in {n \in 1..Len(toks) :
                /\ toks[n] \in PatLines("emailRegex")
                /\ \A word \in {"login", "user"} :
                        ~Includes(LowerWindow(toks, MatchIndex(toks, "emailRegex", n) - 20,
                                              MatchIndex(toks, "emailRegex", n)), word)
                /\ \E word \in {"migracj", "przeniesieni", "skrzynki", "pocztow"} :
                        Includes(LowerWindow(toks, MatchIndex(toks, "emailRegex", n) - radius,
                                             MatchIndex(toks, "emailRegex", n) + radius),
                                 word)}}

\* C24: an email that is not excluded is emitted as a mailbox candidate
\* exactly if its context window holds a migration keyword or a mail-server
\* configuration block was located (no text of the model holds such a
\* block), by extractEmailAccounts of jsonFormatter.js and by
\* extractEmailAccounts of credentialExtractor.js.
C24_MailboxAcceptance ==
    (top = "extractEmailAccounts" /\ pc \in {"returned", "threw"}) =>
        /\ {extractEmailAccounts(text.toks)[k].email :
                k \in 1..Len(extractEmailAccounts(text.toks))}
                = MigrationEmails(text.toks, 200)
        /\ \A email \in MigrationEmails(text.toks, 300) :
                /\ pc = "returned"
                /\ \E k \in 1..Len(ret.items) : ret.items[k].email = email

\* The system a login outside any block is attributed to.
ContextSystem(toks, index) ==
    The({IF Includes(contextText, "ftp") THEN "FTP"
         ELSE IF Includes(contextText, "panel") THEN "Panel administracyjny"
         ELSE IF Includes(contextText, "cpanel") \/ Includes(contextText, "cpsess")
              THEN "cPanel"
         ELSE IF Includes(contextText, "host") THEN "Hosting"
         ELSE IF Includes(contextText, "mail") \/ Includes(contextText, "poczt")
              THEN "Email"
         ELSE "Nieokreslony" :
            contextText \in {LowerWindow(toks, index - 100, index + 100)}})

\* The second loop of extractGeneralCredentials: a login whose username is
\* not yet in credentials is added when a password is nearby.
RECURSIVE AddLogins(_, _, _)
AddLogins(toks, credentials, logins) ==
    IF Len(logins) = 0 THEN credentials
    ELSE The({AddLogins(toks, next, rest) :
                next \in {The({
                    IF \E j \in 1..Len(credentials) : credentials[j].username = login.cap
                    THEN credentials
                    ELSE IF passwordMatch = NULL THEN credentials
                    ELSE Append(credentials,
                            [username |-> login.cap, password |-> passwordMatch,
                             system |-> ContextSystem(toks, login.index),
                             index |-> login.index]) :
                        login \in {Head(logins)},
                        passwordMatch \in {ExecIn(toks, "passwordRegex",
                            Window(toks, Head(logins).index - 50,
                                   Head(logins).index + 200))}})},
                rest \in {Tail(logins)}})

extractGeneralCredentials(toks) ==
    LET FromBlock(a) ==
            The({IF usernameMatch # NULL /\ passwordMatch # NULL
                 THEN <<[username |-> usernameMatch, password |-> passwordMatch,
                         system |-> IF systemMatch # NULL THEN systemMatch
                                    ELSE "Nieokreslony",
                         index |-> a.index]>>
                 ELSE <<>> :
                    usernameMatch \in {ExecIn(toks, "usernameRegex",
                                              Window(toks, a.index, a.index + 400))},
                    passwordMatch \in {ExecIn(toks, "passwordRegex",
                                              Window(toks, a.index, a.index + 400))},
                    systemMatch \in {ExecIn(toks, "systemRegex",
                                            Window(toks, a.index, a.index + 400))}})
    IN  The({AddLogins(toks,
                       Concat([k \in 1..Len(loginBlocks) |-> FromBlock(loginBlocks[k])]),
                       AnchorsOf(toks, "simpleLoginRegex")) :
                loginBlocks \in {AnchorsOf(toks, "loginBlockRegex")}})

\* The username and password of a window, when it holds both.
CredentialsIn(toks, contextText) ==
    The({IF usernameMatch # NULL /\ passwordMatch # NULL
         THEN <<[username |-> usernameMatch, password |-> passwordMatch]>>
         ELSE <<>> :
            usernameMatch \in {ExecIn(toks, "usernameRegex", contextText)},
            passwordMatch \in {ExecIn(toks, "passwordRegex", contextText)}})

\* domainMentionRegex.exec(text).index: a keyword and, later on the same
\* line, the host name.
DomainMention(toks, domain) ==
    LET Offsets(line) ==
            {IndexOf(line, word) :
                word \in {w \in {"dane", "login", "credentials", "konto", "account"} :
                    /\ IndexOf(line, w) # NoIndex
                    /\ Includes(SubSeq(line, IndexOf(line, w) + Len(w) + 1, Len(line)),
                                domain)}}
    IN  The({IF hits = {} THEN NoIndex
             ELSE The({LineStart(toks, first)
                       + (CHOOSE o \in Offsets(lower[first]) :
                            \A q \in Offsets(lower[first]) : o <= q) :
                        first \in {CHOOSE i \in hits : \A j \in hits : i <= j}}) :
                lower \in {[i \in 1..Len(toks) |-> ToLowerCase(toks[i])]},
                hits \in {{i \in 1..Len(toks) : Offsets(ToLowerCase(toks[i])) # {}}}})

\* findRelatedCredentials(text, websiteUrl): <<>> stands for null.
findRelatedCredentials(toks, websiteUrl) ==
    The({IF domain = NoMatch THEN <<>>
         ELSE The({IF byMention # <<>> THEN byMention
                   ELSE IF urlIndex # NoIndex
                   THEN CredentialsIn(toks, Window(toks, urlIndex - 200, urlIndex + 200))
                   ELSE <<>> :
                        byMention \in {The({
                            IF mention = NoIndex THEN <<>>
                            ELSE CredentialsIn(toks,
                                    Window(toks, mention - 50, mention + 400)) :
                                mention \in {DomainMention(toks, domain)}})},
                        urlIndex \in {IndexOf(Join(toks), websiteUrl)}}) :
            domain \in {UrlHostname(websiteUrl)}})

\* The client fields and the timestamp simulateAIAnalysis gives each candidate.
WithClient(cred, opts) ==
    [cred EXCEPT !.dateExtracted = Now,
                 !.clientName = Or(opts.clientInfo.name, NULL),
                 !.clientId = Or(opts.clientInfo.id, NULL),
                 !.ticketId = Or(opts.clientInfo.ticketId, NULL)]

\* generalCredentials.forEach: a general credential is added unless a
\* candidate with its username and password is already there.
\* AddGeneral without the test for a candidate already there.
RECURSIVE AddGeneralAlways(_, _)
AddGeneralAlways(allCredentials, generalCredentials) ==
    IF Len(generalCredentials) = 0 THEN allCredentials
    ELSE AddGeneralAlways(
            Append(allCredentials,
                   Generic(Head(generalCredentials).username,
                           Head(generalCredentials).password,
                           Or(Head(generalCredentials).system, "Nieokreslony"))),
            Tail(generalCredentials))

RECURSIVE AddGeneral(_, _)
AddGeneral(allCredentials, generalCredentials) ==
    IF Len(generalCredentials) = 0 THEN allCredentials
    ELSE The({AddGeneral(next, rest) :
                next \in {The({
                    IF \E j \in 1..Len(allCredentials) :
                            /\ allCredentials[j].username = cred.username
                            /\ allCredentials[j].password = cred.password
                    THEN allCredentials
                    ELSE Append(allCredentials,
                            Generic(cred.username, cred.password,
                                    Or(cred.system, "Nieokreslony"))) :
                        cred \in {Head(generalCredentials)}})},
                rest \in {Tail(generalCredentials)}})

simulateAIAnalysis(toks, opts) ==
    LET SiteCandidate(website) ==
            The({IF relatedCreds = <<>> THEN <<>>
                 ELSE <<[Website(website.url, relatedCreds[1].username,
                                 relatedCreds[1].password)
                           EXCEPT !.system =
                                "Website (" \o UrlHostname(website.url) \o ")"]>> :
                    relatedCreds \in {findRelatedCredentials(toks, website.url)}})
    IN  The({[k \in 1..Len(allCredentials) |-> WithClient(allCredentials[k], opts)] :
            allCredentials \in {The({
                AddGeneral(
                    [k \in 1..Len(ftpAccounts) |->
                        Ftp(ftpAccounts[k].server, ftpAccounts[k].username,
                            ftpAccounts[k].password, 90)]
                    \o Concat([k \in 1..Len(websitesToMigrate) |->
                                SiteCandidate(websitesToMigrate[k])])
                    \o [k \in 1..Len(domains) |->
                            [Domain(domains[k].domain) EXCEPT
                                !.nameservers = domains[k].nameservers]]
                    \o [k \in 1..Len(emailAccounts) |->
                            Email(emailAccounts[k].email, emailAccounts[k].server,
                                  emailAccounts[k].password)],
                    extractGeneralCredentials(toks)) :
                        ftpAccounts \in {extractFtpAccounts(toks)},
                        websitesToMigrate \in {extractWebsites(toks)},
                        domains \in {extractDomains(toks)},
                        emailAccounts \in {extractEmailAccounts(toks)}})}})

\* One call of simulateAIAnalysis on the text and the options.
Aggregate ==
    /\ apc = "idle"
    /\ answer' = Returned(List(simulateAIAnalysis(text.toks, options)))
    /\ apc' = "aggregated"
    /\ UNCHANGED <<text, options, env, requests, remote>>
    /\ UNCHANGED <<extractVars, mergeVars, formatVars>>
    /\ UNCHANGED uiVars

InitAggregate ==
    /\ text \in {StringInput(t) : t \in UNION {[1..n -> Lines] : n \in 0..MaxTextLen}}
    /\ options \in {[clientInfo |-> c] :
                        c \in {NoClientInfo, [name |-> "Acme", id |-> "K1", ticketId |-> "T1"]}}
    /\ env = "development"
    /\ apc = "idle"
    /\ requests = 0
    /\ remote = NotCalled
    /\ answer = NotCalled
    /\ IdleExtract
    /\ IdleUi
    /\ IdleMerge
    /\ IdleFormat

NextAggregate == Aggregate

SpecAggregate == InitAggregate /\ [][NextAggregate]_vars

\* The candidates of kind `type` in a list; UNDEFINED is the kind of a
\* generic candidate, which carries no _type.
OfType(items, type) == SelectSeq(items, LAMBDA c : c._type = type)

\* C15: in the list returned by simulateAIAnalysis, no generic (untagged)
\* candidate has the same (username, password) pair as a specialized
\* candidate (ftp, website, domain, email) of that list.
C15_NoGenericDuplicate ==
    apc = "aggregated" =>
        \A i, j \in 1..Len(answer.value.items) :
            (/\ answer.value.items[i]._type = UNDEFINED
             /\ answer.value.items[j]._type # UNDEFINED)
                => ~(/\ answer.value.items[i].username = answer.value.items[j].username
                     /\ answer.value.items[i].password = answer.value.items[j].password)

\* The text holds a general credential whose pair a specialized candidate
\* of the returned list carries.
C15_Witness ==
    /\ apc = "aggregated"
    /\ \E g \in 1..Len(extractGeneralCredentials(text.toks)),
          j \in 1..Len(answer.value.items) :
            /\ answer.value.items[j]._type # UNDEFINED
            /\ answer.value.items[j].username =
                    extractGeneralCredentials(text.toks)[g].username
            /\ answer.value.items[j].password =
                    extractGeneralCredentials(text.toks)[g].password

\* C22: the text "serwer FTP: <host>", a login line, a password line yields
\* exactly one FTP candidate, with that server, username and password and
\* confidence 0.9: the mention is not reported once per pattern matching it.
C22_OneCandidatePerMention ==
    (apc = "aggregated" /\ text.toks = <<L_FTP, L_LOGIN, L_PASS>>) =>
        /\ Len(OfType(answer.value.items, "ftp")) = 1
        /\ \A k \in 1..Len(OfType(answer.value.items, "ftp")) :
                /\ OfType(answer.value.items, "ftp")[k].server = "ftp.example.com"
                /\ OfType(answer.value.items, "ftp")[k].username = "alice"
                /\ OfType(answer.value.items, "ftp")[k].password = "s3cret"
                /\ OfType(answer.value.items, "ftp")[k].confidence = 90

\* C16: the list returned by simulateAIAnalysis holds one candidate for
\* every candidate returned by extractFtpAccounts, extractWebsites,
\* extractDomains and extractEmailAccounts, none omitted, and every
\* candidate of the list carries the client name, client id and ticket id
\* of options.clientInfo.
C16_EveryCandidateKeptAndStamped ==
    apc = "aggregated" =>
        /\ Len(OfType(answer.value.items, "ftp")) = Len(extractFtpAccounts(text.toks))
        /\ Len(OfType(answer.value.items, "website")) = Len(extractWebsites(text.toks))
        /\ Len(OfType(answer.value.items, "domain")) = Len(extractDomains(text.toks))
        /\ Len(OfType(answer.value.items, "email")) = Len(extractEmailAccounts(text.toks))
        /\ \A k \in 1..Len(answer.value.items) :
                /\ answer.value.items[k].clientName = Or(options.clientInfo.name, NULL)
                /\ answer.value.items[k].clientId = Or(options.clientInfo.id, NULL)
                /\ answer.value.items[k].ticketId = Or(options.clientInfo.ticketId, NULL)

(***************************************************************************)
(* analyzeTextForCredentials (jsonFormatter.js): the remote call and the   *)
(* fallback to the local pipeline.                                         *)
(***************************************************************************)
MaxMessageLen == 2  \* lines of the text under analysis
MaxReplyLen == 1    \* lines of a generated text that is not JSON

J_PAYLOAD == "{\"ftp_accounts\":[],\"websites\":[\"https://example.pl\"],\"domains\":[],\"mail_accounts\":[]}"
J_ERROR == "{\"error\":\"quota exceeded\"}"
J_NUMBER == "42"
J_NULL == "null"


\* JSON.parse on the generated texts of the model.  No text made of
\* vocabulary lines, and not the empty string, is JSON.
JsonParse(s) ==
    CASE s = J_PAYLOAD ->
            Returned([kind |-> "object",
                      keys |-> {"ftp_accounts", "websites", "domains", "mail_accounts"}])
      [] s = J_ERROR -> Returned([kind |-> "object", keys |-> {"error"}])
      [] s = J_NUMBER -> Returned([kind |-> "number", keys |-> {}])
      [] s = J_NULL -> Returned([kind |-> "null", keys |-> {}])
      [] OTHER -> Threw("SyntaxError")

\* How the remote call can settle: fetch rejects ("network"), the status is
\* not 2xx ("status"), response.json() rejects ("body"), or the body is
\* JSON and data.candidates?.[0]?.content?.parts?.[0]?.text || "" is the
\* text made of toks (the empty text when that path is missing).
RemoteOutcomes ==
    {[kind |-> k, toks |-> <<>>] : k \in {"network", "status", "body"}}
    \cup {[kind |-> "data", toks |-> t] :
            t \in UNION {[1..n -> Lines] : n \in 0..MaxReplyLen}
                  \cup {<<j>> : j \in {J_PAYLOAD, J_ERROR, J_NUMBER, J_NULL}}}

\* The call up to its first await: the guard on the text, then fetch.  A
\* blank text throws inside the outer try; the outer catch returns the
\* local result unless NODE_ENV is production.
AnalyzeCall ==
    /\ apc = "idle"
    /\ IF IsBlank(Join(text.toks))
       THEN /\ answer' = IF env # "production"
                         THEN Returned(List(simulateAIAnalysis(text.toks, options)))
                         ELSE Threw("Error: Blad podczas analizy tekstu")
            /\ apc' = "done"
            /\ UNCHANGED requests
       ELSE /\ requests' = requests + 1
            /\ apc' = "fetching"
            /\ UNCHANGED answer
    /\ UNCHANGED <<text, options, env, remote>>
    /\ UNCHANGED <<extractVars, mergeVars, formatVars>>
    /\ UNCHANGED uiVars

\* The value the call returns once the remote call has settled as r.
AnswerTo(toks, opts, r) ==
    IF r.kind # "data" THEN Returned(List(simulateAIAnalysis(toks, opts)))
    ELSE IF JsonParse(Join(r.toks)).status = "returned" THEN JsonParse(Join(r.toks))
    ELSE IF Join(r.toks) # "" THEN Returned(List(simulateAIAnalysis(r.toks, opts)))
    ELSE Returned(List(simulateAIAnalysis(toks, opts)))

\* RemoteSettles with a retry: a failed request is issued again.
RemoteSettlesRetrying(r) ==
    /\ apc = "fetching"
    /\ remote' = r
    /\ IF r.kind # "data"
       THEN /\ requests' = requests + 1
            /\ UNCHANGED <<apc, answer>>
       ELSE /\ answer' = AnswerTo(text.toks, options, r)
            /\ apc' = "done"
            /\ UNCHANGED requests
    /\ UNCHANGED <<text, options, env>>
    /\ UNCHANGED <<extractVars, mergeVars, formatVars>>
    /\ UNCHANGED uiVars

RemoteSettles(r) ==
    /\ apc = "fetching"
    /\ remote' = r
    /\ answer' = AnswerTo(text.toks, options, r)
    /\ apc' = "done"
    /\ UNCHANGED <<text, options, env, requests>>
    /\ UNCHANGED <<extractVars, mergeVars, formatVars>>
    /\ UNCHANGED uiVars

InitAnalyze ==
    /\ text \in {StringInput(t) :
                    t \in UNION {[1..n -> Lines] : n \in 0..MaxMessageLen}}
    /\ options \in {[clientInfo |-> c] :
                        c \in {NoClientInfo, [name |-> "Acme", id |-> "K1", ticketId |-> "T1"]}}
    /\ env \in {"development", "production"}
    /\ apc = "idle"
    /\ requests = 0
    /\ remote = NotCalled
    /\ answer = NotCalled
    /\ IdleExtract
    /\ IdleUi
    /\ IdleMerge
    /\ IdleFormat

NextAnalyze ==
    \/ AnalyzeCall
    \/ \E r \in RemoteOutcomes : RemoteSettles(r)

SpecAnalyze == InitAnalyze /\ [][NextAnalyze]_vars

\* The remote call of a finished analysis failed: network error, non-2xx
\* status, a body that is not JSON, or generated text that is not JSON.
RemoteFailed ==
    /\ apc = "done"
    /\ requests > 0
    /\ \/ remote.kind \in {"network", "status", "body"}
       \/ (remote.kind = "data" /\ JsonParse(Join(remote.toks)).status = "threw")

\* C3: for every non-blank text, whenever the remote call fails, the value
\* returned is exactly what simulateAIAnalysis returns for the original
\* text and the same options.
C3_FallbackOnOriginalText ==
    RemoteFailed => answer = Returned(List(simulateAIAnalysis(text.toks, options)))

\* The payload schema {ftp_accounts, websites, domains, mail_accounts}.
Conforms(v) ==
    /\ v.kind = "object"
    /\ v.keys = {"ftp_accounts", "websites", "domains", "mail_accounts"}

\* C4: generated text that parses as JSON but does not conform to the
\* payload schema is treated as a failure: the call never returns the
\* parsed value and returns the heuristic result instead.
C4_NonConformingJsonRejected ==
    (/\ apc = "done"
     /\ requests > 0
     /\ remote.kind = "data"
     /\ JsonParse(Join(remote.toks)).status = "returned"
     /\ ~Conforms(JsonParse(Join(remote.toks)).value))
        => answer = Returned(List(simulateAIAnalysis(text.toks, options)))

\* C13: analyzeTextForCredentials called with empty or whitespace-only text
\* ends in an error surfaced to its caller; it never returns a result list
\* for such a text.
C13_BlankTextIsAnError ==
    (apc = "done" /\ IsBlank(Join(text.toks))) => answer.status = "threw"

\* C14: each call of analyzeTextForCredentials issues at most one request
\* to the remote endpoint: exactly one when the text is non-blank, none when
\* it is blank, and none again after the request has failed.
C14_OneRemoteAttempt ==
    /\ requests <= 1
    /\ apc \in {"fetching", "done"}
            => requests = IF IsBlank(Join(text.toks)) THEN 0 ELSE 1

\* A call whose only request failed has returned.
C14_Witness == RemoteFailed /\ requests = 1 /\ answer.status = "returned"

(***************************************************************************)
(* Export (jsonFormatter.js) and the application's credential list         *)
(* (App.js, TextAnalyzer.js): the analysis result is delivered to the      *)
(* list, and the list is exported.                                         *)
(***************************************************************************)
\* String(n) for a number that is a non-negative integer
RECURSIVE NumStr(_)
NumStr(n) ==
    IF n < 10 THEN SubSeq("0123456789", n + 1, n + 1)
    ELSE NumStr(n \div 10) \o SubSeq("0123456789", (n % 10) + 1, (n % 10) + 1)

\* parts.join(sep)
RECURSIVE JoinWith(_, _)
JoinWith(parts, sep) ==
    IF Len(parts) = 0 THEN ""
    ELSE IF Len(parts) = 1 THEN parts[1]
    ELSE parts[1] \o sep \o JoinWith(Tail(parts), sep)

\* The CSV text of one bucket of formatted records.  No value of the model
\* holds a double quote, so the replace of each cell leaves it as it is.
createCsvForCredentialType(credentials, type) ==
    IF Len(credentials) = 0 THEN ""
    ELSE LET PortCell(port, default) ==
                IF TruthyNumber(port) THEN NumStr(port) ELSE default
             headers ==
                CASE type = "ftp" ->
                        <<"Server", "Username", "Password", "Port", "Encryption">>
                  [] type = "website" ->
                        <<"URL", "Hostname", "Username", "Password", "CMS">>
                  [] type = "domain" -> <<"Domain", "Nameservers">>
                  [] type = "email" ->
                        <<"Email", "Password", "Server", "IMAP Port", "SMTP Port",
                          "POP3 Port">>
                  [] OTHER -> <<"Username", "Password", "System">>
             Cells(cred) ==
                CASE type = "ftp" ->
                        <<Or(cred.server, ""), Or(cred.username, ""),
                          Or(cred.password, ""), PortCell(cred.port, "21"),
                          Or(cred.encryption, "FTP")>>
                  [] type = "website" ->
                        <<Or(cred.url, ""), Or(cred.hostname, ""),
                          Or(cred.loginDetails.username, ""),
                          Or(cred.loginDetails.password, ""), Or(cred.cms, "")>>
                  [] type = "domain" ->
                        <<Or(cred.domain, ""), JoinWith(cred.nameservers, ", ")>>
                  [] type = "email" ->
                        <<Or(cred.email, ""), Or(cred.password, ""),
                          Or(cred.serverConfiguration.server, ""),
                          PortCell(cred.serverConfiguration.incomingServer.imap.port, ""),
                          PortCell(cred.serverConfiguration.outgoingServer.smtp.port, ""),
                          IF cred.serverConfiguration.incomingServer.pop3 = <<>> THEN ""
                          ELSE PortCell(cred.serverConfiguration.incomingServer.pop3[1].port, "")>>
                  [] OTHER ->
                        <<Or(cred.username, ""), Or(cred.password, ""),
                          Or(cred.system, "")>>
             Row(cells) ==
                JoinWith([k \in 1..Len(cells) |-> "\"" \o cells[k] \o "\""], ",")
         IN  JoinWith(<<JoinWith(headers, ",")>>
                      \o [k \in 1..Len(credentials) |-> Row(Cells(credentials[k]))],
                      "\n")

\* The value createJsonFile serialises: the branch on categorized / grouped.
\* An exception of a formatter leaves the map at the first record that
\* raises it.
JsonData(items, isGrouped, categorized) ==
    IF categorized THEN categorizeMigrationData(items)
    ELSE IF isGrouped THEN groupCredentialsByClient(items)
    ELSE The({IF \E k \in 1..Len(formatted) : formatted[k].status = "threw"
              THEN formatted[CHOOSE k \in 1..Len(formatted) :
                        /\ formatted[k].status = "threw"
                        /\ \A j \in 1..(k - 1) : formatted[j].status # "threw"]
              ELSE Returned([k \in 1..Len(formatted) |-> formatted[k].value]) :
                formatted \in {[k \in 1..Len(items) |-> FormatCredential(items[k])]}})

\* createJsonFile without its guard on the argument.
createJsonFileUnguarded(credentials, isGrouped, categorized) ==
    The({IF dataToExport.status = "threw" THEN dataToExport
         ELSE Returned([type |-> "application/json", data |-> dataToExport.value]) :
            dataToExport \in {JsonData(credentials.items, isGrouped, categorized)}})

\* The object URL createJsonFile returns is modelled by the blob it names:
\* its MIME type and the data serialised into it.  The message of the
\* error is written without its diacritic.
createJsonFile(credentials, isGrouped, categorized) ==
    IF credentials.kind # "list" \/ Len(credentials.items) = 0
    THEN Threw("Error: Brak danych uwierzytelniajacych do eksportu")
    ELSE The({IF dataToExport.status = "threw" THEN dataToExport
              ELSE Returned([type |-> "application/json",
                             data |-> dataToExport.value]) :
                dataToExport \in {JsonData(credentials.items, isGrouped, categorized)}})

\* A direct call of createJsonFile.
CreateJsonFile(credentials, isGrouped, categorized) ==
    /\ fpc = "idle"
    /\ arg' = credentials
    /\ exported' = createJsonFile(credentials, isGrouped, categorized)
    /\ fpc' = "createJsonFile"
    /\ UNCHANGED <<records, grouped, flat, buckets, downloads, formatter, outcome>>
    /\ UNCHANGED <<text, extractVars, mergeVars, analyzeVars>>
    /\ UNCHANGED uiVars

\* exportCredentialsToJson(credentials, {grouped, categorized, filename}):
\* an option left out has its default, grouped true and categorized false.
\* The catch turns every exception into the return value false.
ExportCredentialsToJson(credentials, isGrouped, categorized, filename) ==
    /\ fpc = "idle"
    /\ arg' = credentials
    /\ \E jsonUrl \in {createJsonFile(credentials, isGrouped, categorized)} :
            IF jsonUrl.status = "threw"
            THEN /\ exported' = Returned(FALSE)
                 /\ UNCHANGED downloads
            ELSE /\ downloads' = Append(downloads,
                        [href |-> jsonUrl.value,
                         download |-> Or(filename, "migration-data-"
                                            \o SubSeq(Now, 1, 10) \o ".json")])
                 /\ exported' = Returned(TRUE)
    /\ fpc' = "exportCredentialsToJson"
    /\ UNCHANGED <<records, grouped, flat, buckets, formatter, outcome>>
    /\ UNCHANGED <<text, extractVars, mergeVars, analyzeVars>>
    /\ UNCHANGED uiVars

ExportCredentialsToCSV(credentials) ==
    /\ fpc = "idle"
    /\ arg' = credentials
    /\ exported' =
            IF credentials.kind # "list" \/ Len(credentials.items) = 0
            THEN Threw("Error: Brak danych do eksportu")
            ELSE The({IF categorized.status = "threw" THEN categorized
                      ELSE Returned(
                        [ftpCsv |-> createCsvForCredentialType(
                                        categorized.value.ftpAccounts, "ftp"),
                         websitesCsv |-> createCsvForCredentialType(
                                        categorized.value.websites, "website"),
                         domainsCsv |-> createCsvForCredentialType(
                                        categorized.value.domains, "domain"),
                         emailCsv |-> createCsvForCredentialType(
                                        categorized.value.emailAccounts, "email"),
                         genericCsv |-> createCsvForCredentialType(
                                        categorized.value.otherCredentials, "generic")]) :
                        categorized \in {categorizeMigrationData(credentials.items)}})
    /\ fpc' = "exportCredentialsToCSV"
    /\ UNCHANGED <<records, grouped, flat, buckets, downloads, formatter, outcome>>
    /\ UNCHANGED <<text, extractVars, mergeVars, analyzeVars>>
    /\ UNCHANGED uiVars

\* setNotification({type, message})
Notice(type, message) == <<[type |-> type, message |-> message]>>

HideAfter == 5   \* seconds after which a timeout hides the notification
MaxTimers == 2   \* timeouts pending at a time
MaxClock == 8    \* seconds of a behaviour

\* A reading of the clock later than the one the analysis took.
Later == "2025-01-01T00:00:05.000Z"

\* TextAnalyzer hands a non-empty result to onCredentialsDetected, which is
\* handleCredentialsDetected of App: every candidate gets the client of the
\* form and the time `now` of the delivery, and the list grows by them.
\* The exports of a behaviour come after its delivery.
HandleCredentialsDetected(now) ==
    /\ apc = "done"
    /\ fpc = "idle"
    /\ answer.status = "returned"
    /\ answer.value.kind = "list"
    /\ Len(answer.value.items) > 0
    /\ Len(timers) < MaxTimers
    /\ records' = records \o
            [k \in 1..Len(answer.value.items) |->
                [answer.value.items[k] EXCEPT
                    !.clientName = Or(options.clientInfo.name, "Nieznany Klient"),
                    !.clientId = Or(options.clientInfo.id, NULL),
                    !.ticketId = Or(options.clientInfo.ticketId, NULL),
                    !.dateExtracted = now]]
    /\ notification' = Notice("success",
            "Wykryto " \o NumStr(Len(answer.value.items)) \o " "
            \o (IF Len(answer.value.items) = 1 THEN "dane uwierzytelniajace"
                ELSE "danych uwierzytelniajacych") \o ".")
    /\ raisedAt' = clock
    /\ appTab' = "credentials"
    /\ timers' = Append(timers, clock + HideAfter)
    /\ apc' = "delivered"
    /\ UNCHANGED <<text, options, env, requests, remote, answer>>
    /\ UNCHANGED <<fpc, grouped, flat, buckets, arg, exported, downloads,
                   formatter, outcome>>
    /\ UNCHANGED <<extractVars, mergeVars>>
    /\ UNCHANGED <<isLoading, clock>>
    /\ UNCHANGED <<analyzerVars, listVars>>

\* The texts analysed by the application of the model.  handleAnalyzeClick
\* returns before the analysis when the text is blank.
AppTexts ==
    {<<L_IP>>, <<L_FTP, L_LOGIN, L_PASS>>, <<L_WEB, L_LOGIN, L_PASS>>,
     <<L_DOMAIN, L_EMAIL>>}

InitApp ==
    /\ text \in {StringInput(t) : t \in AppTexts}
    /\ options \in {[clientInfo |-> c] :
                        c \in {NoClientInfo, [name |-> "Acme", id |-> "K1", ticketId |-> "T1"]}}
    /\ env \in {"development", "production"}
    /\ apc = "idle"
    /\ requests = 0
    /\ remote = NotCalled
    /\ answer = NotCalled
    /\ IdleExtract
    /\ IdleUi
    /\ IdleMerge
    /\ IdleFormat

NextApp ==
    \/ AnalyzeCall
    \/ \E r \in RemoteOutcomes : RemoteSettles(r)
    \/ \E now \in {Now, Later} : HandleCredentialsDetected(now)
    \/ \E credentials \in {List(records), Undefined}, isGrouped \in BOOLEAN,
          categorized \in BOOLEAN :
            CreateJsonFile(credentials, isGrouped, categorized)
    \/ \E credentials \in {List(records), Undefined}, isGrouped \in BOOLEAN,
          categorized \in BOOLEAN, filename \in {UNDEFINED, "export.json"} :
            ExportCredentialsToJson(credentials, isGrouped, categorized, filename)
    \/ \E credentials \in {List(records), Undefined} :
            ExportCredentialsToCSV(credentials)

SpecApp == InitApp /\ [][NextApp]_vars

Timestamps(list) == [k \in 1..Len(list) |-> list[k].dateExtracted]

\* C19: once a record has its extraction timestamp (dateExtracted), no
\* later step changes it: the delivery of the analysis result to the
\* application's list (handleCredentialsDetected), formatting, grouping and
\* flattening all keep the value assigned at extraction.
C19_TimestampImmutable ==
    /\ apc = "delivered" => Timestamps(records) = Timestamps(answer.value.items)
    /\ \A k \in 1..Len(records) :
            FormatCredential(records[k]).status = "returned"
                => FormatCredential(records[k]).value.dateExtracted
                        = records[k].dateExtracted
    /\ groupCredentialsByClient(records).status = "returned"
            => Timestamps(flattenGroupedCredentials(
                            groupCredentialsByClient(records).value))
                    = Timestamps(records)

(***************************************************************************)
(* TextAnalyzer.js, the TextAnalyzer component: parseTextManually and      *)
(* handleAnalyzeClick around the call of analyzeTextForCredentials.        *)
(***************************************************************************)
MaxAnalyses == 2  \* analyses started on one text

\* findNearby(text, position, regex): the capture of the first match within
\* 300 characters of the position, or null.
findNearby(toks, position, pat) ==
    ExecIn(toks, pat, Window(toks, position - 300, position + 300))

parseTextManually(toks) ==
    LET FtpAccount(a) ==
            [server |-> a.cap, username |-> findNearby(toks, a.index, "ta.login"),
             password |-> findNearby(toks, a.index, "ta.password")]
        nsMatch == RegExpExec(toks, "ta.dnsServersRegex", 0)
        nsServers ==
            Concat([i \in 1..Len(toks) |->
                IF /\ LineStart(toks, i) >= nsMatch.index
                   /\ LineStart(toks, i) + Len(toks[i]) <= nsMatch.index + 300
                THEN NsEntries(toks[i]) ELSE <<>>])
        InLogin(a) ==
            \E preText \in {WindowText(toks, Window(toks, a.index - 20, a.index))} :
                Includes(preText, "login") \/ Includes(preText, "user")
        EmailAccount(a) ==
            IF InLogin(a) THEN <<>>
            ELSE <<[email |-> a.cap,
                    password |-> findNearby(toks, a.index, "ta.password"),
                    imapServer |-> NULL, smtpServer |-> NULL]>>
    IN  The({[ftpAccounts |-> [k \in 1..Len(ftp) |-> FtpAccount(ftp[k])],
              websitesToMigrate |-> [k \in 1..Len(websites) |-> websites[k].cap],
              domainsToDelegrate |->
                IF nsMatch.index = NoIndex THEN <<>>
                ELSE The({[k \in 1..Len(domains) |->
                                [domain |-> domains[k].cap, nameservers |-> nsServers]] :
                        domains \in {IF Len(named) > 0 THEN named
                                     ELSE AddUnseen(<<>>,
                                        SelectSeq([k \in 1..Len(websites) |->
                                                    [cap |-> UrlHostname(websites[k].cap)]],
                                                  LAMBDA d : d.cap # NoMatch))}}),
              emailAccounts |-> Concat([k \in 1..Len(emails) |-> EmailAccount(emails[k])])] :
                ftp \in {AnchorsOf(toks, "ta.ftpRegex")},
                websites \in {AnchorsOf(toks, "ta.websiteRegex")},
                named \in {AnchorsOf(toks, "ta.domainRegex")},
                emails \in {AnchorsOf(toks, "ta.emailRegex")}})

\* The texts typed into the TextAnalyzer.
AnalyzerTexts ==
    {<<L_IP>>, <<L_FTP, L_LOGIN, L_PASS>>, <<L_WEB, L_LOGIN, L_PASS>>,
     <<L_DOMAIN, L_EMAIL>>, <<L_LOGIN, L_EMAIL>>, <<L_ULOGIN>>,
     <<L_EMAIL, L_MOVE>>, <<L_NS, L_WEB>>, <<L_SPACE>>}

\* A button that is disabled on a blank text only.
DisabledWhenBlank == IsBlank(Join(text.toks))

\* The analyze button: disabled={isAnalyzing || !inputText.trim()}
AnalyzeDisabled == isAnalyzing \/ IsBlank(Join(text.toks))

\* handleAnalyzeClick up to its await: the manual parse, then the call of
\* analyzeTextForCredentials up to its fetch.  The text is not blank when
\* the button is enabled.
HandleAnalyzeClick ==
    /\ ~AnalyzeDisabled
    /\ requests < MaxAnalyses
    /\ isAnalyzing' = TRUE
    /\ inFlight' = inFlight + 1
    /\ error' = NULL
    /\ parsedData' = parseTextManually(text.toks)
    /\ delivered' = NotCalled
    /\ requests' = requests + 1
    /\ apc' = "fetching"
    /\ UNCHANGED <<text, options, env, remote, answer>>
    /\ UNCHANGED <<extractVars, mergeVars, formatVars, listVars, noticeVars>>

\* handleAnalyzeClick from its await on: the credentials are handed to
\* onCredentialsDetected when they have a positive length; otherwise an
\* error is shown when the manual parse found nothing either; the catch
\* clause shows the message of what was thrown; finally isAnalyzing is
\* reset.
AnalysisResumes ==
    /\ apc = "done"
    /\ inFlight > 0
    /\ IF answer.status = "threw"
       THEN /\ error' = "Blad analizy: " \o answer.error
            /\ UNCHANGED delivered
       ELSE IF answer.value.kind = "list" /\ Len(answer.value.items) > 0
       THEN /\ delivered' = Returned(answer.value)
            /\ UNCHANGED error
       ELSE IF parsedData = NoParsedData
       THEN /\ error' = "Nie wykryto danych uwierzytelniajacych ani informacji o migracji w podanym tekscie."
            /\ UNCHANGED delivered
       ELSE UNCHANGED <<error, delivered>>
    /\ isAnalyzing' = FALSE
    /\ inFlight' = inFlight - 1
    /\ apc' = "idle"
    /\ UNCHANGED <<text, options, env, requests, remote, answer, parsedData>>
    /\ UNCHANGED <<extractVars, mergeVars, formatVars, listVars, noticeVars>>

InitAnalyzer ==
    /\ text \in {StringInput(t) : t \in AnalyzerTexts}
    /\ options \in {[clientInfo |-> c] :
                        c \in {NoClientInfo, [name |-> "Acme", id |-> "K1", ticketId |-> "T1"]}}
    /\ env \in {"development", "production"}
    /\ apc = "idle"
    /\ requests = 0
    /\ remote = NotCalled
    /\ answer = NotCalled
    /\ IdleExtract
    /\ IdleUi
    /\ IdleMerge
    /\ IdleFormat

NextAnalyzer ==
    \/ HandleAnalyzeClick
    \/ \E r \in RemoteOutcomes : RemoteSettles(r)
    \/ AnalysisResumes

SpecAnalyzer == InitAnalyzer /\ [][NextAnalyzer]_vars

\* The emails of a text whose every occurrence has a login or user keyword,
\* in any case, in the 20 characters before it.
LoginEmails(toks) ==
    {Cap("emailRegex", l) : l \in LinesOf(toks) \cap PatLines("emailRegex")}
    \ {Cap("emailRegex", toks[i]) :
            i \in {n \in 1..Len(toks) :
                    /\ toks[n] \in PatLines("emailRegex")
                    /\ \A word \in {"login", "user"} :
                            ~Includes(LowerWindow(toks,
                                        MatchIndex(toks, "emailRegex", n) - 20,
                                        MatchIndex(toks, "emailRegex", n)), word)}}

\* C23: an email preceded within 20 characters by a login or username
\* keyword is never emitted as a mailbox, neither by extractEmailAccounts
\* of jsonFormatter.js nor by parseTextManually (extractEmailAccounts of
\* credentialExtractor.js emits no mailbox at all).
C23_LoginEmailNotMailbox ==
    \A email \in LoginEmails(text.toks) :
        /\ \A k \in 1..Len(extractEmailAccounts(text.toks)) :
                extractEmailAccounts(text.toks)[k].email # email
        /\ \A k \in 1..Len(parsedData.emailAccounts) :
                parsedData.emailAccounts[k].email # email

\* C27: when the remote service answers with a payload of the requested
\* form that holds at least one account, handleAnalyzeClick hands it to
\* onCredentialsDetected before it finishes, and does not report that
\* nothing was detected.
C27_ConformingPayloadDelivered ==
    [][(/\ inFlight' < inFlight
        /\ remote.kind = "data"
        /\ Join(remote.toks) = J_PAYLOAD)
            => /\ delivered' = Returned(answer.value)
               /\ error' = NULL]_vars

\* The analysis with its scheduling: the request that was issued settles,
\* and the handler that awaits it is resumed.  RemoteSettles(r) is enabled
\* for one outcome exactly when it is for every outcome (while the request is
\* pending) and any outcome ends the wait, so weak fairness on a single
\* outcome says what it says on all of them: no request stays pending for
\* ever.  Which outcome arrives is left open.
SpecAnalyzerLive ==
    /\ SpecAnalyzer
    /\ WF_vars(RemoteSettles([kind |-> "data", toks |-> <<J_NULL>>]))
    /\ WF_vars(AnalysisResumes)

\* C28: every analysis started by handleAnalyzeClick sets isAnalyzing back
\* to false, whatever the outcome; while isAnalyzing holds the analyze
\* button is disabled, so that at most one analysis is in flight.
C28_AnalysisEnds ==
    /\ [](inFlight <= 1)
    /\ [](isAnalyzing <=> inFlight = 1)
    /\ [](isAnalyzing => AnalyzeDisabled)
    /\ (isAnalyzing ~> ~isAnalyzing)

\* A second analysis has been started and has ended.
C28_Witness ==
    /\ requests = MaxAnalyses
    /\ ~isAnalyzing
    /\ inFlight = 0

(***************************************************************************)
(* CredentialsList (TextAnalyzer.js): the tabs, the ticked rows and the    *)
(* export of the ticked rows.  `records` is the credentials prop.          *)
(***************************************************************************)
MaxSelected == 2  \* ids a row tick may add to (select-all is not limited)

Tabs == {"all", "ftp", "websites", "domains", "emails"}

\* The filters of the tabs.
IsFtpCredential(cred) ==
    Truthy(cred.username) /\ (SystemIncludes(cred, "ftp") \/ cred._type = "ftp")
IsWebsiteCredential(cred) == SystemIncludes(cred, "web") \/ cred._type = "website"
IsDomainCredential(cred) == SystemIncludes(cred, "domain") \/ cred._type = "domain"
IsEmailCredential(cred) ==
    \/ (cred.username \notin {UNDEFINED, NULL} /\ Includes(cred.username, "@"))
    \/ SystemIncludes(cred, "email")
    \/ cred._type = "email"

ftpCredentials(credentials) == SelectSeq(credentials, IsFtpCredential)
websiteCredentials(credentials) == SelectSeq(credentials, IsWebsiteCredential)
domainCredentials(credentials) == SelectSeq(credentials, IsDomainCredential)
emailCredentials(credentials) == SelectSeq(credentials, IsEmailCredential)

\* `${credential._type || "credential"}-${index}`, index counted from 0
getCredentialId(credential, index) ==
    Or(credential._type, "credential") \o "-" \o NumStr(index)

getCurrentTabCredentials(credentials, tab) ==
    CASE tab = "ftp" -> ftpCredentials(credentials)
      [] tab = "websites" -> websiteCredentials(credentials)
      [] tab = "domains" -> domainCredentials(credentials)
      [] tab = "emails" -> emailCredentials(credentials)
      [] OTHER -> credentials

\* The ids of the rows of a table: each row is rendered with its index in the
\* list of its tab.
RowIds(list) == [k \in 1..Len(list) |-> getCredentialId(list[k], k - 1)]

InSeq(x, seq) == \E k \in 1..Len(seq) : seq[k] = x

\* The entry exportToJson pushes for a credential; its if / else-if chain is
\* the one of Classify.
ExportEntry(credential) ==
    CASE Classify(credential) = "ftp" ->
            [server |-> Or(credential.server, credential.system),
             username |-> credential.username,
             password |-> credential.password,
             clientName |-> credential.clientName,
             dateExtracted |-> credential.dateExtracted]
      [] Classify(credential) = "website" ->
            [url |-> Or(credential.url, credential.username),
             credentials |-> [username |-> credential.username,
                              password |-> credential.password],
             clientName |-> credential.clientName,
             dateExtracted |-> credential.dateExtracted]
      [] Classify(credential) = "domain" ->
            [domain |-> Or(credential.domain, credential.username),
             nameservers |-> credential.nameservers,
             clientName |-> credential.clientName,
             dateExtracted |-> credential.dateExtracted]
      [] Classify(credential) = "email" ->
            [email |-> Or(credential.email, credential.username),
             password |-> credential.password,
             server |-> Or(credential.server, credential.system),
             imapSettings |-> credential.imapSettings,
             smtpSettings |-> credential.smtpSettings,
             clientName |-> credential.clientName,
             dateExtracted |-> credential.dateExtracted]
      [] OTHER ->
            [username |-> credential.username,
             password |-> credential.password,
             system |-> credential.system,
             clientName |-> credential.clientName,
             dateExtracted |-> credential.dateExtracted]

\* credentials.forEach((credential, index) => ...) of exportToJson from the
\* element i on: a credential is pushed when the id built from its index in
\* the whole list is selected.
RECURSIVE ExportFrom(_, _, _, _)
ExportFrom(credentials, selected, i, acc) ==
    IF i > Len(credentials) THEN acc
    ELSE ExportFrom(credentials, selected, i + 1,
            IF ~InSeq(getCredentialId(credentials[i], i - 1), selected) THEN acc
            ELSE [acc EXCEPT ![BucketOf(Classify(credentials[i]))] =
                        Append(@, ExportEntry(credentials[i]))])

\* alert(...) and return
Alerted == [status |-> "alert"]

handleCheckboxChange(prevSelected, credentialId) ==
    IF InSeq(credentialId, prevSelected)
    THEN SelectSeq(prevSelected, LAMBDA id : id # credentialId)
    ELSE Append(prevSelected, credentialId)

\* The user ticks or unticks row k of the table shown.
HandleCheckboxChange(k) ==
    /\ Len(records) > 0
    /\ k \in 1..Len(getCurrentTabCredentials(records, activeTab))
    /\ LET id == RowIds(getCurrentTabCredentials(records, activeTab))[k]
       IN  /\ InSeq(id, selectedCredentials) \/ Len(selectedCredentials) < MaxSelected
           /\ selectedCredentials' = handleCheckboxChange(selectedCredentials, id)
    /\ UNCHANGED <<activeTab, exportData>>
    /\ UNCHANGED <<analyzerVars, noticeVars>>
    /\ UNCHANGED <<text, extractVars, mergeVars, formatVars, analyzeVars>>

\* The checkbox in the head of the table shown.
HandleSelectAll(checked) ==
    /\ Len(records) > 0
    /\ selectedCredentials' =
            IF checked THEN RowIds(getCurrentTabCredentials(records, activeTab))
            ELSE <<>>
    /\ UNCHANGED <<activeTab, exportData>>
    /\ UNCHANGED <<analyzerVars, noticeVars>>
    /\ UNCHANGED <<text, extractVars, mergeVars, formatVars, analyzeVars>>

SetActiveTab(tab) ==
    /\ activeTab' = tab
    /\ UNCHANGED <<selectedCredentials, exportData>>
    /\ UNCHANGED <<analyzerVars, noticeVars>>
    /\ UNCHANGED <<text, extractVars, mergeVars, formatVars, analyzeVars>>

\* The export button is disabled while nothing is selected.
ExportDisabled == Len(selectedCredentials) = 0

ExportToJson ==
    /\ ~ExportDisabled
    /\ exportData' =
            IF Len(selectedCredentials) = 0 THEN Alerted
            ELSE Returned(ExportFrom(records, selectedCredentials, 1,
                                     [b \in Buckets |-> <<>>]))
    /\ UNCHANGED <<activeTab, selectedCredentials>>
    /\ UNCHANGED <<analyzerVars, noticeVars>>
    /\ UNCHANGED <<text, extractVars, mergeVars, formatVars, analyzeVars>>

\* The records the lists shown are built from.
ListPool == {r \in RecordPool : r.username \in {"alice", "root", "jan@example.com"}}

InitList ==
    /\ text = StringInput(<<>>)
    /\ records \in UNION {[1..n -> ListPool] : n \in 0..MaxRecords}
    /\ fpc = "idle"
    /\ grouped = NotCalled
    /\ flat = <<>>
    /\ buckets = NotCalled
    /\ arg = Undefined
    /\ exported = NotCalled
    /\ downloads = <<>>
    /\ formatter = ""
    /\ outcome = NotCalled
    /\ IdleExtract
    /\ IdleUi
    /\ IdleMerge
    /\ IdleAnalyze

NextList ==
    \/ \E k \in 1..MaxRecords : HandleCheckboxChange(k)
    \/ \E checked \in BOOLEAN : HandleSelectAll(checked)
    \/ \E tab \in Tabs : SetActiveTab(tab)
    \/ ExportToJson

SpecList == InitList /\ [][NextList]_vars

\* The rows of the table shown that are displayed as ticked.
TickedRows ==
    LET list == getCurrentTabCredentials(records, activeTab)
    IN  {k \in 1..Len(list) : InSeq(RowIds(list)[k], selectedCredentials)}

\* C26: every credential that is ticked is in the JSON exportToJson
\* produces, and an export started with a non-empty selection never produces
\* an artifact whose five categories are all empty.
C26_TickedAreExported ==
    [][(exportData' # exportData /\ exportData'.status = "returned")
        => /\ \A k \in TickedRows :
                LET cred == getCurrentTabCredentials(records, activeTab)[k]
                IN  InSeq(ExportEntry(cred),
                          exportData'.value[BucketOf(Classify(cred))])
           /\ \E b \in Buckets : Len(exportData'.value[b]) > 0]_vars

\* C29: the number of selected records never exceeds the number of records
\* of the active tab, and every selected id denotes a row of that tab.
C29_SelectionWithinTab ==
    /\ Len(selectedCredentials) <= Len(getCurrentTabCredentials(records, activeTab))
    /\ \A j \in 1..Len(selectedCredentials) :
            InSeq(selectedCredentials[j],
                  RowIds(getCurrentTabCredentials(records, activeTab)))

(***************************************************************************)
(* The notification of App (part_000) and the timeouts that hide it.       *)
(***************************************************************************)
\* The button is disabled while the list is empty; window.confirm answers.
ClearAllCredentials(confirmed) ==
    /\ ~isLoading
    /\ fpc = "idle"
    /\ Len(records) > 0
    /\ Len(timers) < MaxTimers
    /\ IF confirmed
       THEN /\ records' = <<>>
            /\ notification' = Notice("info",
                    "Wszystkie dane uwierzytelniajace zostaly usuniete.")
            /\ raisedAt' = clock
            /\ timers' = Append(timers, clock + HideAfter)
       ELSE UNCHANGED <<records, notification, raisedAt, timers>>
    /\ UNCHANGED <<isLoading, appTab, clock>>
    /\ UNCHANGED <<fpc, grouped, flat, buckets, arg, exported, downloads,
                   formatter, outcome>>
    /\ UNCHANGED <<analyzerVars, listVars>>
    /\ UNCHANGED <<text, extractVars, mergeVars, analyzeVars>>

\* updateAISettings up to its await.
UpdateAISettings ==
    /\ ~isLoading
    /\ Len(timers) < MaxTimers
    /\ isLoading' = TRUE
    /\ UNCHANGED <<notification, raisedAt, timers, appTab, clock>>
    /\ UNCHANGED <<analyzerVars, listVars>>
    /\ UNCHANGED <<text, extractVars, mergeVars, formatVars, analyzeVars>>

\* updateAnalysisParameters resolves (it never rejects), and updateAISettings
\* runs on to the end of its finally block.
SettingsUpdated ==
    /\ isLoading
    /\ notification' = Notice("success",
            "Ustawienia analizy AI zostaly zaktualizowane.")
    /\ raisedAt' = clock
    /\ isLoading' = FALSE
    /\ timers' = Append(timers, clock + HideAfter)
    /\ UNCHANGED <<appTab, clock>>
    /\ UNCHANGED <<analyzerVars, listVars>>
    /\ UNCHANGED <<text, extractVars, mergeVars, formatVars, analyzeVars>>

\* The close button of the notification.
DismissNotification ==
    /\ ~isLoading
    /\ notification # <<>>
    /\ notification' = <<>>
    /\ UNCHANGED <<raisedAt, timers, isLoading, appTab, clock>>
    /\ UNCHANGED <<analyzerVars, listVars>>
    /\ UNCHANGED <<text, extractVars, mergeVars, formatVars, analyzeVars>>

\* The oldest pending timeout is due: () => setNotification(null).  No
\* handler keeps the handle of its timeout and none is ever cleared.
TimerFires ==
    /\ timers # <<>>
    /\ Head(timers) <= clock
    /\ notification' = <<>>
    /\ timers' = Tail(timers)
    /\ UNCHANGED <<raisedAt, isLoading, appTab, clock>>
    /\ UNCHANGED <<analyzerVars, listVars>>
    /\ UNCHANGED <<text, extractVars, mergeVars, formatVars, analyzeVars>>

\* A second passes; a timeout that is due fires first.
Tick ==
    /\ clock < MaxClock
    /\ \A k \in 1..Len(timers) : timers[k] > clock
    /\ clock' = clock + 1
    /\ UNCHANGED <<notification, raisedAt, timers, isLoading, appTab>>
    /\ UNCHANGED <<analyzerVars, listVars>>
    /\ UNCHANGED <<text, extractVars, mergeVars, formatVars, analyzeVars>>

\* The application after an analysis of its text has settled and before the
\* result is handed over.
InitNotify ==
    /\ text = StringInput(<<L_FTP, L_LOGIN, L_PASS>>)
    /\ options \in {[clientInfo |-> c] :
                        c \in {NoClientInfo, [name |-> "Acme", id |-> "K1", ticketId |-> "T1"]}}
    /\ env = "development"
    /\ apc = "done"
    /\ requests = 1
    /\ remote \in {r \in RemoteOutcomes : r.kind # "data"}
    /\ answer = AnswerTo(text.toks, options, remote)
    /\ IdleExtract
    /\ IdleUi
    /\ IdleMerge
    /\ IdleFormat

NextNotify ==
    \/ \E now \in {Now, Later} : HandleCredentialsDetected(now)
    \/ \E confirmed \in BOOLEAN : ClearAllCredentials(confirmed)
    \/ UpdateAISettings
    \/ SettingsUpdated
    \/ DismissNotification
    \/ TimerFires
    \/ Tick

SpecNotify == InitNotify /\ [][NextNotify]_vars

\* C30: a notification stays visible for its full 5 seconds unless the user
\* dismisses it: a timeout clears a notification only when that notification
\* has been shown for 5 seconds.
C30_NotificationKeepsItsTime ==
    [][(/\ Len(timers') < Len(timers)
        /\ notification # <<>>
        /\ notification' = <<>>)
            => clock >= raisedAt + HideAfter]_vars

====
